---- MODULE Spec2Model ----
(***************************************************************************)
(* State-machine model of the Mistral chat orchestration of the            *)
(* assistant-api-test backend: streamMistralChat (chat.controller.ts),     *)
(* MistralService.sendMessageStream (mistral.service.ts) and the           *)
(* chat_sessions access of SupabaseService (supabase.service.ts) under     *)
(* the row-level-security policies of create_chat_sessions_table.sql.      *)
(*                                                                         *)
(* Strings are modelled as sequences of tokens, so '' is <<>> and string   *)
(* concatenation is \o.  A message content is a record that says whether   *)
(* it is a string or an array of content chunks.                           *)
(***************************************************************************)
EXTENDS Integers, Sequences, FiniteSets, TLC

\* ------------------------------------------------------------------ bounds
\* number of file paths one request may carry
MaxFiles == 2
\* number of units the model stream may yield
MaxStream == 2

\* ------------------------------------------------------------- input sets
Reqs == {1, 2}
Users == {"u1", "u2"}
\* the prompt of request r: missing / empty, or a text of its own
Prompts(r) == {<<>>, <<"prompt", ToString(r)>>}
\* storage paths, <<directory, base name>>
FilePaths == {<<"u1", "contract.pdf">>, <<"u2", "scan.png">>}
\* what the k-th unit of a model stream may carry: no text delta (or an
\* empty one) or a text of its own; no usage or a usage with its own total
Deltas(k) == {<<>>, <<"delta", ToString(k)>>}
Usages(k) == {[present |-> FALSE, totalTokens |-> 0],
              [present |-> TRUE, totalTokens |-> k]}
\* two stored files with the same base name and different content
SameNamePaths == {<<"u1", "contract.pdf">>, <<"u1/old", "contract.pdf">>}
\* Authorization headers: none, a Bearer header with a user's token or with
\* a token that does not verify, and a non-Bearer header with a valid token
AuthHeaders ==
    {[present |-> FALSE, scheme |-> "", token |-> ""]}
    \cup [present : {TRUE}, scheme : {"Bearer"}, token : Users \cup {"bad"}]
    \cup [present : {TRUE}, scheme : {"Basic"}, token : {"u1"}]

\* what client.chat.complete may answer to the analysis request: it throws,
\* or the first choice has no content, content chunks instead of a string,
\* a string that is not JSON, JSON that is an array of findings, or JSON
\* that is an object; with or without usage
CompleteReplies ==
    [thrown : {TRUE}, content : {"none"},
     usage : {u \in Usages(1) : ~u.present}]
    \cup [thrown : {FALSE},
          content : {"none", "chunks", "text", "json_array", "json_object"},
          usage : Usages(1)]

\* ------------------------------------------------------------ data shapes
\* an AnalysisResult value as JSON.parse returns it: an array of findings
\* or something else
AnalysisResult(isArray, items) == [isArray |-> isArray, items |-> items]
StringContent(text) == [isString |-> TRUE, text |-> text, chunks |-> <<>>]
ChunkContent(chunks) == [isString |-> FALSE, text |-> <<>>, chunks |-> chunks]
Message(role, content) == [role |-> role, content |-> content]
TextChunk(text) == [type |-> "text", text |-> text, imageUrl |-> <<>>]
ImageURLChunk(url) == [type |-> "image_url", text |-> <<>>, imageUrl |-> url]
legaltrainPrompt == <<"legaltrainPrompt">>
NoUsage == [present |-> FALSE, totalTokens |-> 0]
UsageInfo(n) == [present |-> TRUE, totalTokens |-> n]

\* an OCR image: imageBase64 is absent (null), raw base64, or a data: URI
OCRImageObject(present, dataPrefix, b64) ==
    [present |-> present, dataPrefix |-> dataPrefix, b64 |-> b64]
OCRPageObject(markdown, images) == [markdown |-> markdown, images |-> images]
OCRResponse(fileName, pages) == [fileName |-> fileName, pages |-> pages]

\* The page lists the OCR provider may return for a file: two pages of text
\* for the contract; for the scan either no page at all or one page with
\* three images (raw base64, null, data: URI).
OcrPageLists(fileContent) ==
    IF fileContent[2] = "contract.pdf"
    THEN { << OCRPageObject(<<fileContent[1], fileContent[2], "page1">>, <<>>),
              OCRPageObject(<<fileContent[1], fileContent[2], "page2">>, <<>>) >> }
    ELSE { <<>>,
           << OCRPageObject(<<fileContent[1], fileContent[2], "page1">>,
                 << OCRImageObject(TRUE, FALSE, <<"img1">>),
                    OCRImageObject(FALSE, FALSE, <<>>),
                    OCRImageObject(TRUE, TRUE, <<"img2">>) >>) >> }

RECURSIVE Flatten(_)
Flatten(seqs) ==
    IF seqs = <<>> THEN <<>> ELSE Head(seqs) \o Flatten(Tail(seqs))

SeqsUpTo(S, n) == UNION {[1..k -> S] : k \in 0..n}

\* path.basename(filePath)
basename(filePath) == filePath[2]

\* --------------------------------------- MistralService.sendMessageStream
\* messages.map(...): the conversion to the SDK message format
convertChunk(chunk) ==
    IF chunk.type = "text" THEN TextChunk(chunk.text)
    ELSE ImageURLChunk(chunk.imageUrl)

convertMessage(msg) ==
    IF msg.content.isString
    THEN Message(IF msg.role = "system" THEN "system"
                 ELSE IF msg.role = "assistant" THEN "assistant"
                 ELSE "user",
                 StringContent(msg.content.text))
    ELSE Message(IF msg.role = "user" THEN "user"
                 ELSE IF msg.role = "assistant" THEN "assistant"
                 ELSE "system",
                 ChunkContent([i \in 1..Len(msg.content.chunks) |->
                                  convertChunk(msg.content.chunks[i])]))

convertMessagesToSdkFormat(messages) ==
    [i \in 1..Len(messages) |-> convertMessage(messages[i])]

\* the image_url chunks of one page: images without imageBase64 are skipped,
\* raw base64 gets the data-URI prefix
imageChunk(image) ==
    IF ~image.present THEN <<>>
    ELSE IF image.dataPrefix THEN << ImageURLChunk(<<"data:">> \o image.b64) >>
    ELSE << ImageURLChunk(<<"data:", "image/jpeg;base64,">> \o image.b64) >>

pageChunks(page) ==
    << TextChunk(page.markdown) >>
    \o Flatten([i \in 1..Len(page.images) |-> imageChunk(page.images[i])])

\* variant: a document without pages gets a message of header and footer
documentContextMessage_headerOnly(doc) ==
    << Message("user", ChunkContent(
         << TextChunk(<<"--- Document Context: ", doc.fileName, " ---">>) >>
         \o Flatten([i \in 1..Len(doc.pages) |-> pageChunks(doc.pages[i])])
         \o << TextChunk(<<"--- End Document Context: ", doc.fileName, " ---">>) >>)) >>

\* the synthesized user message of one document (none for zero pages)
documentContextMessage(doc) ==
    IF Len(doc.pages) > 0
    THEN << Message("user", ChunkContent(
              << TextChunk(<<"--- Document Context: ", doc.fileName, " ---">>) >>
              \o Flatten([i \in 1..Len(doc.pages) |-> pageChunks(doc.pages[i])])
              \o << TextChunk(<<"--- End Document Context: ", doc.fileName, " ---">>) >>)) >>
    ELSE <<>>

documentContextMessages(processedDocuments) ==
    Flatten([i \in 1..Len(processedDocuments) |->
                documentContextMessage(processedDocuments[i])])

\* variant: the anchor is never found
lastUserIndex_none(sdkMessages) == 0

\* sdkMessages.findIndex((msg, i) => msg.role === 'user' && i === length - 1),
\* 1-based; 0 stands for -1
lastUserIndex(sdkMessages) ==
    IF Len(sdkMessages) > 0 /\ sdkMessages[Len(sdkMessages)].role = "user"
    THEN Len(sdkMessages) ELSE 0

\* variant: a context message is spliced in even without documents
injectDocumentContext_always(sdkMessages, processedDocuments) ==
    SubSeq(sdkMessages, 1, Len(sdkMessages) - 1)
    \o (IF Len(processedDocuments) > 0
        THEN documentContextMessages(processedDocuments)
        ELSE << Message("user", ChunkContent(
                  << TextChunk(<<"--- Document Context: ", "none", " ---">>) >>)) >>)
    \o SubSeq(sdkMessages, Len(sdkMessages), Len(sdkMessages))

\* splice before the last user message, or push at the end
injectDocumentContext(sdkMessages, processedDocuments) ==
    IF Len(processedDocuments) > 0
    THEN IF lastUserIndex(sdkMessages) # 0
         THEN SubSeq(sdkMessages, 1, lastUserIndex(sdkMessages) - 1)
              \o documentContextMessages(processedDocuments)
              \o SubSeq(sdkMessages, lastUserIndex(sdkMessages), Len(sdkMessages))
         ELSE sdkMessages \o documentContextMessages(processedDocuments)
    ELSE sdkMessages

\* the message list sendMessageStream hands to client.chat.stream
sendMessageStreamMessages(messages, processedDocuments) ==
    injectDocumentContext(convertMessagesToSdkFormat(messages), processedDocuments)

\* ------------------------------------------------------------------ state
VARIABLES
    chat_sessions,  \* table public.chat_sessions: row id = index
    user_usage,     \* table user_usage (the usage ledger)
    document_analysis, \* table document_analysis: row id = index
    tmpdir,         \* os.tmpdir(): set of <<base name, content>> files
    pc,             \* per request: where its handler stands
    req,            \* per request: headers, req.user and body
    loc,            \* per request: the locals of streamMistralChat
    res,            \* per request: the express Response
    exchanges,      \* history: per session, number of exchanges persisted
    returned,       \* history: the user, reported id and exchange of every
                    \* request that completed with its update written
    chat_history,   \* table chat_history: set of rows [id, user_id, history]
    activeChats,    \* GeminiService.activeChats: the keys of the Map in
                    \* insertion order
    uuids           \* how many ids crypto.randomUUID() has handed out

vars == <<chat_sessions, user_usage, document_analysis, tmpdir, pc, req,
          loc, res, exchanges, returned, chat_history, activeChats, uuids>>

\* req.body.chatId absent (undefined)
NoChatId == 0
\* the sessions that exist before the first request, as earlier requests
\* left them: session 1 of u1 with one exchange and no document, session 2
\* of u2 with one exchange and the one-page scan as its document
SeedMessages ==
    << Message("user", StringContent(<<"prompt", "0">>)),
       Message("assistant", StringContent(<<"delta", "0">>)) >>
SeedDocuments ==
    << OCRResponse("scan.png",
         << OCRPageObject(<<"u2", "scan.png", "page1">>,
               << OCRImageObject(TRUE, FALSE, <<"img1">>),
                  OCRImageObject(FALSE, FALSE, <<>>),
                  OCRImageObject(TRUE, TRUE, <<"img2">>) >>) >>) >>
SeedSessions ==
    << [user_id |-> "u1", messages |-> SeedMessages, documents |-> <<>>],
       [user_id |-> "u2", messages |-> SeedMessages, documents |-> SeedDocuments] >>

\* crypto.randomUUID(): the n-th id handed out; no id is handed out twice
\* and none is an id a client could have had before
UuidBase == 100
randomUUID(n) == UuidBase + n
\* a turn of the assistant chat: role and the texts of its parts
Content(role, parts) == [role |-> role, parts |-> parts]
\* the chat history stored before the first request: one row of u1 with
\* one exchange
SeedHistories ==
    { [id |-> 1, user_id |-> "u1",
       history |-> << Content("user", << <<"prompt", "0">> >>),
                      Content("model", << <<"delta", "0">> >>) >>] }

\* an id that names no row of chat_sessions
StaleChatId == Len(SeedSessions) + Cardinality(Reqs) + 1

IdleReq ==
    [route |-> "",
     authorization |-> [present |-> FALSE, scheme |-> "", token |-> ""],
     user |-> "", prompt |-> <<>>, chatId |-> NoChatId, filePaths |-> <<>>]
IdleLoc ==
    [jwt |-> "", userId |-> "", finalSessionId |-> 0,
     historyMessages |-> <<>>, existingDocuments |-> <<>>,
     newlyProcessedDocuments |-> <<>>, isNewSession |-> FALSE,
     fileIndex |-> 0, fileContent |-> <<>>,
     sdkMessages |-> <<>>, units |-> 0,
     assistantResponseContent |-> <<>>, tokenUsage |-> NoUsage,
     currentSession |-> [user_id |-> "", messages |-> <<>>, documents |-> <<>>],
     before |-> <<>>, skipped |-> {}, streamError |-> FALSE,
     persisted |-> FALSE,
     analysisResult |-> [isArray |-> TRUE, items |-> <<>>],
     modelReply |-> [isArray |-> TRUE, items |-> <<>>], parsed |-> FALSE,
     replyContent |-> "", yielded |-> <<>>, usageUnit |-> 0]
IdleRes ==
    [statusCode |-> 200, headersSent |-> FALSE, writableEnded |-> FALSE,
     xChatId |-> 0, xChatIdSets |-> 0, body |-> <<>>, json |-> "",
     destroyed |-> FALSE, lost |-> 0, ends |-> 0,
     payload |-> [sent |-> FALSE,
                  analysis |-> [isArray |-> TRUE, items |-> <<>>],
                  recordId |-> 0, tokenUsage |-> NoUsage]]

Init ==
    /\ chat_sessions = SeedSessions
    /\ user_usage = <<>>
    /\ document_analysis = <<>>
    /\ tmpdir = {}
    /\ pc = [r \in Reqs |-> "idle"]
    /\ req = [r \in Reqs |-> IdleReq]
    /\ loc = [r \in Reqs |-> IdleLoc]
    /\ res = [r \in Reqs |-> IdleRes]
    /\ exchanges = [s \in 1..Len(SeedSessions) |-> 0]
    /\ returned = {}
    /\ chat_history = SeedHistories
    /\ activeChats = <<>>
    /\ uuids = 0

\* ------------------------------------------------------- express Response
\* res.status(code).json({error}): sends headers and body, ends the response
SendJson(response, code, error) ==
    [response EXCEPT !.statusCode = code, !.headersSent = TRUE,
                     !.writableEnded = TRUE, !.json = error,
                     !.ends = @ + 1]
\* variant: the header is not set
SetChatIdHeader_dropped(response, id) == response

\* res.setHeader('X-Chat-Id', id)
SetChatIdHeader(response, id) ==
    [response EXCEPT !.xChatId = id, !.xChatIdSets = @ + 1]
\* variant: a write does not send the headers
Write_unflushed(response, content) ==
    [response EXCEPT !.body = Append(@, content),
                     !.lost = IF response.destroyed THEN @ + 1 ELSE @]

\* res.write(content): the chunk is handed to the response; on a response
\* whose connection is gone it is dropped and nothing is thrown
Write(response, content) ==
    [response EXCEPT !.headersSent = TRUE, !.body = Append(@, content),
                     !.lost = IF response.destroyed THEN @ + 1 ELSE @]
\* variant: end() leaves the response open
End_pending(response) == [response EXCEPT !.headersSent = TRUE]

\* res.end()
End(response) ==
    [response EXCEPT !.headersSent = TRUE, !.writableEnded = TRUE,
                     !.ends = @ + 1]
\* variant: the catch block only ends the response
CatchError_end(response) == End(response)

\* the catch block of streamMistralChat
CatchError(response) ==
    IF ~response.headersSent
    THEN SendJson(response, 500, "Failed to process the Mistral chat request")
    ELSE IF ~response.writableEnded THEN End(response)
    ELSE response

\* ----------------------------------------------------- row-level security
\* auth.uid() of the client created with this jwt
uid(jwt) == jwt
\* variant: row-level security is not enabled
RlsVisible_off(row, jwt) == TRUE

\* USING (auth.uid() = user_id) of the SELECT and UPDATE policies
RlsVisible(row, jwt) == uid(jwt) = row.user_id

\* getChatSessionById: the row, or null (exists = FALSE) when the query
\* errors, no row has the id, or the policy hides the row
NullSession == [exists |-> FALSE, id |-> 0, userId |-> "",
                messages |-> <<>>, documents |-> <<>>]
\* variant: the select is run with a key that bypasses the policies
getChatSessionById_unscoped(sessions, sessionId, jwt, dbOk) ==
    IF dbOk /\ sessionId \in 1..Len(sessions)
    THEN [exists |-> TRUE, id |-> sessionId,
          userId |-> sessions[sessionId].user_id,
          messages |-> sessions[sessionId].messages,
          documents |-> sessions[sessionId].documents]
    ELSE NullSession

getChatSessionById(sessions, sessionId, jwt, dbOk) ==
    IF dbOk /\ sessionId \in 1..Len(sessions) /\ RlsVisible(sessions[sessionId], jwt)
    THEN [exists |-> TRUE, id |-> sessionId,
          userId |-> sessions[sessionId].user_id,
          messages |-> sessions[sessionId].messages,
          documents |-> sessions[sessionId].documents]
    ELSE NullSession

\* variant: the new messages replace the stored ones
updatedMessages_overwrite(currentSession, newMessages) == newMessages

\* the arrays updateChatSession writes back
updatedMessages(currentSession, newMessages) ==
    currentSession.messages \o newMessages
\* variant: the stored documents are written back twice
updatedDocuments_again(currentSession, newDocuments) ==
    currentSession.documents \o currentSession.documents \o newDocuments

updatedDocuments(currentSession, newDocuments) ==
    currentSession.documents \o newDocuments

\* ------------------------------------------------------------- the handler
\* index.ts app.use + authenticateToken: request r for the handler `route`
\* arrives and passes the authentication middleware, or is answered 401 by
\* it.
authenticateToken(route, r, authorization, prompt, chatId, filePaths) ==
    /\ pc[r] = "idle"
    /\ LET token == IF authorization.present THEN authorization.token ELSE ""
           request == [route |-> route,
                       authorization |-> authorization, user |-> "",
                       prompt |-> prompt, chatId |-> chatId,
                       filePaths |-> filePaths]
       IN IF token = ""
          THEN /\ res' = [res EXCEPT ![r] = SendJson(@, 401, "No token provided")]
               /\ req' = [req EXCEPT ![r] = request]
               /\ pc' = [pc EXCEPT ![r] = "Rejected"]
          ELSE IF token \notin Users
          THEN /\ res' = [res EXCEPT ![r] = SendJson(@, 401, "Invalid token")]
               /\ req' = [req EXCEPT ![r] = request]
               /\ pc' = [pc EXCEPT ![r] = "Rejected"]
          ELSE /\ res' = res
               /\ req' = [req EXCEPT ![r] = [request EXCEPT !.user = token]]
               /\ pc' = [pc EXCEPT ![r] = route]
    /\ loc' = [loc EXCEPT ![r] = [IdleLoc EXCEPT !.before = chat_sessions]]
    /\ UNCHANGED <<chat_sessions, user_usage, tmpdir, exchanges, returned,
                   document_analysis,
                   chat_history, activeChats, uuids>>

\* variant: the placeholder is inserted before the prompt is checked
Validate_createFirst(r) ==
    /\ pc[r] = "streamMistralChat"
    /\ req[r].authorization.present
    /\ req[r].authorization.scheme = "Bearer"
    /\ req[r].user # ""
    /\ loc' = [loc EXCEPT ![r].jwt = req[r].authorization.token,
                          ![r].userId = req[r].user]
    /\ chat_sessions' = Append(chat_sessions,
           [user_id |-> req[r].user, messages |-> <<>>, documents |-> <<>>])
    /\ exchanges' = Append(exchanges, 0)
    /\ IF req[r].prompt = <<>>
       THEN /\ res' = [res EXCEPT ![r] = SendJson(@, 400, "Prompt is required")]
            /\ pc' = [pc EXCEPT ![r] = "Rejected"]
       ELSE /\ res' = res
            /\ pc' = [pc EXCEPT ![r] = "createChatSession"]
    /\ UNCHANGED <<user_usage, tmpdir, req, returned, document_analysis,
                   chat_history, activeChats, uuids>>

\* streamMistralChat up to its first await: the checks of the Authorization
\* header, of req.user and of the prompt, then the choice between looking
\* the supplied id up and creating a placeholder
Validate(r) ==
    /\ pc[r] = "streamMistralChat"
    /\ IF ~(req[r].authorization.present /\ req[r].authorization.scheme = "Bearer")
       THEN /\ res' = [res EXCEPT ![r] =
                         SendJson(@, 401, "Unauthorized: Missing or invalid JWT token")]
            /\ pc' = [pc EXCEPT ![r] = "Rejected"]
            /\ loc' = loc
       ELSE IF req[r].user = ""
       THEN /\ res' = [res EXCEPT ![r] = SendJson(@, 401, "User not authenticated")]
            /\ pc' = [pc EXCEPT ![r] = "Rejected"]
            /\ loc' = loc
       ELSE IF req[r].prompt = <<>>
       THEN /\ res' = [res EXCEPT ![r] = SendJson(@, 400, "Prompt is required")]
            /\ pc' = [pc EXCEPT ![r] = "Rejected"]
            /\ loc' = [loc EXCEPT ![r].jwt = req[r].authorization.token,
                                  ![r].userId = req[r].user]
       ELSE /\ res' = res
            /\ loc' = [loc EXCEPT ![r].jwt = req[r].authorization.token,
                                  ![r].userId = req[r].user]
            /\ pc' = [pc EXCEPT ![r] =
                        IF req[r].chatId # NoChatId THEN "getChatSessionById"
                        ELSE "createChatSession"]
    /\ UNCHANGED <<chat_sessions, user_usage, tmpdir, req,
                   exchanges, returned,
                   document_analysis,
                   chat_history, activeChats, uuids>>

\* where the handler goes once the X-Chat-Id header is set
AfterHeader(r) ==
    IF Len(req[r].filePaths) > 0 THEN "downloadFile" ELSE "sendMessageStream"

\* variant: an id that does not resolve is adopted as it was supplied
ResolveSession_adopt(r) ==
    /\ pc[r] = "getChatSessionById"
    /\ \E dbOk \in BOOLEAN :
         LET session == getChatSessionById(chat_sessions, req[r].chatId,
                                           loc[r].jwt, dbOk)
         IN /\ loc' = [loc EXCEPT ![r].finalSessionId = req[r].chatId,
                                  ![r].isNewSession = ~session.exists,
                                  ![r].historyMessages = session.messages,
                                  ![r].existingDocuments = session.documents,
                                  ![r].fileIndex = 1]
            /\ res' = [res EXCEPT ![r] = SetChatIdHeader(@, req[r].chatId)]
            /\ pc' = [pc EXCEPT ![r] = AfterHeader(r)]
    /\ UNCHANGED <<chat_sessions, user_usage, tmpdir, req,
                   exchanges, returned,
                   document_analysis,
                   chat_history, activeChats, uuids>>

\* step 1 with a supplied id: getChatSessionById returns, the session is
\* adopted and the header set, or the handler turns to a placeholder
ResolveSession(r) ==
    /\ pc[r] = "getChatSessionById"
    /\ \E dbOk \in BOOLEAN :
         LET session == getChatSessionById(chat_sessions, req[r].chatId,
                                           loc[r].jwt, dbOk)
         IN IF session.exists
            THEN /\ loc' = [loc EXCEPT ![r].finalSessionId = session.id,
                                       ![r].historyMessages = session.messages,
                                       ![r].existingDocuments = session.documents,
                                       ![r].fileIndex = 1]
                 /\ res' = [res EXCEPT ![r] = SetChatIdHeader(@, session.id)]
                 /\ pc' = [pc EXCEPT ![r] = AfterHeader(r)]
            ELSE /\ loc' = [loc EXCEPT ![r].isNewSession = TRUE]
                 /\ res' = res
                 /\ pc' = [pc EXCEPT ![r] = "createChatSession"]
    /\ UNCHANGED <<chat_sessions, user_usage, tmpdir, req,
                   exchanges, returned,
                   document_analysis,
                   chat_history, activeChats, uuids>>

\* variant: the row is inserted with the system prompt as its first
\* message
insertedRow_seeded(userId, initialMessages, initialDocuments) ==
    [user_id |-> userId,
     messages |-> << Message("system", StringContent(legaltrainPrompt)) >>
                  \o initialMessages,
     documents |-> initialDocuments]

\* createChatSession: the row handed to the insert
insertedRow(userId, initialMessages, initialDocuments) ==
    [user_id |-> userId, messages |-> initialMessages,
     documents |-> initialDocuments]

\* variant: the placeholder is inserted twice
CreatePlaceholder_twice(r) ==
    /\ pc[r] = "createChatSession"
    /\ chat_sessions' = chat_sessions
            \o << [user_id |-> loc[r].userId, messages |-> <<>>,
                   documents |-> <<>>],
                  [user_id |-> loc[r].userId, messages |-> <<>>,
                   documents |-> <<>>] >>
    /\ exchanges' = exchanges \o <<0, 0>>
    /\ loc' = [loc EXCEPT ![r].isNewSession = TRUE,
                          ![r].finalSessionId = Len(chat_sessions) + 1,
                          ![r].fileIndex = 1]
    /\ res' = [res EXCEPT ![r] = SetChatIdHeader(@, Len(chat_sessions) + 1)]
    /\ pc' = [pc EXCEPT ![r] = AfterHeader(r)]
    /\ UNCHANGED <<user_usage, tmpdir, req, returned,
                   document_analysis,
                   chat_history, activeChats, uuids>>

\* createChatSession(userId, [], [], jwt) returns: the insert passes the
\* INSERT policy (auth.uid() = user_id) and the store assigns the id, or
\* null comes back and the handler throws into its catch block
CreatePlaceholder(r) ==
    /\ pc[r] = "createChatSession"
    /\ \E dbOk \in BOOLEAN :
         IF dbOk /\ uid(loc[r].jwt) = loc[r].userId
         THEN /\ chat_sessions' = Append(chat_sessions,
                    insertedRow(loc[r].userId, <<>>, <<>>))
              /\ exchanges' = Append(exchanges, 0)
              /\ loc' = [loc EXCEPT ![r].isNewSession = TRUE,
                                    ![r].finalSessionId = Len(chat_sessions) + 1,
                                    ![r].fileIndex = 1]
              /\ res' = [res EXCEPT ![r] =
                           SetChatIdHeader(@, Len(chat_sessions) + 1)]
              /\ pc' = [pc EXCEPT ![r] = AfterHeader(r)]
         ELSE /\ loc' = [loc EXCEPT ![r].isNewSession = TRUE]
              /\ res' = [res EXCEPT ![r] = CatchError(@)]
              /\ pc' = [pc EXCEPT ![r] = "Aborted"]
              /\ UNCHANGED <<chat_sessions, exchanges>>
    /\ UNCHANGED <<user_usage, tmpdir, req, returned,
                   document_analysis,
                   chat_history, activeChats, uuids>>

\* variant: the loop is left after the first file
NextFile_break(r) == "sendMessageStream"

\* the position after one file of the loop is over
NextFile(r) ==
    IF loc[r].fileIndex < Len(req[r].filePaths) THEN "downloadFile"
    ELSE "sendMessageStream"

\* step 3, downloadFile: the content of the stored file is written to
\* os.tmpdir()/basename(filePath), replacing what is there, and the path is
\* returned; or the download throws and the file is skipped (tempFilePath
\* is still null, nothing is unlinked)
DownloadFile(r) ==
    /\ pc[r] = "downloadFile"
    /\ LET filePath == req[r].filePaths[loc[r].fileIndex]
       IN \E ok \in BOOLEAN :
            IF ok
            THEN /\ tmpdir' = {f \in tmpdir : f[1] # basename(filePath)}
                                \cup {<<basename(filePath), filePath>>}
                 /\ loc' = loc
                 /\ pc' = [pc EXCEPT ![r] = "readFileSync"]
            ELSE /\ tmpdir' = tmpdir
                 /\ loc' = [loc EXCEPT ![r].fileIndex = @ + 1,
                                       ![r].skipped = @ \cup {loc[r].fileIndex}]
                 /\ pc' = [pc EXCEPT ![r] = NextFile(r)]
    /\ UNCHANGED <<chat_sessions, user_usage, req, res,
                   exchanges, returned,
                   document_analysis,
                   chat_history, activeChats, uuids>>

\* variant: a failed read leaves the temporary copy where it is
ReadFileSync_noFinally(r) ==
    /\ pc[r] = "readFileSync"
    /\ LET filePath == req[r].filePaths[loc[r].fileIndex]
           files == {f \in tmpdir : f[1] = basename(filePath)}
       IN \E ok \in BOOLEAN :
            IF files # {} /\ ok
            THEN /\ loc' = [loc EXCEPT ![r].fileContent =
                                     (CHOOSE f \in files : TRUE)[2]]
                 /\ pc' = [pc EXCEPT ![r] = "processDocumentOcr"]
            ELSE /\ loc' = [loc EXCEPT ![r].fileIndex = @ + 1,
                                       ![r].skipped = @ \cup {loc[r].fileIndex}]
                 /\ pc' = [pc EXCEPT ![r] = NextFile(r)]
    /\ tmpdir' = tmpdir
    /\ UNCHANGED <<chat_sessions, user_usage, req, res,
                   exchanges, returned,
                   document_analysis,
                   chat_history, activeChats, uuids>>

\* step 3, the handler resumes after the await of downloadFile:
\* readFileSync returns what is stored under the temporary path now; when
\* no file is there, or the read fails, it throws, the file is skipped
\* and the finally block unlinks the temporary path (an unlinkSync that
\* finds no file throws and is logged)
ReadFileSync(r) ==
    /\ pc[r] = "readFileSync"
    /\ LET filePath == req[r].filePaths[loc[r].fileIndex]
           files == {f \in tmpdir : f[1] = basename(filePath)}
       IN \E ok \in BOOLEAN :
            IF files # {} /\ ok
            THEN /\ loc' = [loc EXCEPT ![r].fileContent =
                                     (CHOOSE f \in files : TRUE)[2]]
                 /\ pc' = [pc EXCEPT ![r] = "processDocumentOcr"]
                 /\ tmpdir' = tmpdir
            ELSE /\ loc' = [loc EXCEPT ![r].fileIndex = @ + 1,
                                       ![r].skipped = @ \cup {loc[r].fileIndex}]
                 /\ pc' = [pc EXCEPT ![r] = NextFile(r)]
                 /\ tmpdir' = tmpdir \ files
    /\ UNCHANGED <<chat_sessions, user_usage, req, res,
                   exchanges, returned,
                   document_analysis,
                   chat_history, activeChats, uuids>>

\* variant: a file whose name the session or the request already has a
\* document for is not extracted again
ProcessDocumentOcr_dedup(r) ==
    /\ pc[r] = "processDocumentOcr"
    /\ LET filePath == req[r].filePaths[loc[r].fileIndex]
           known == \E i \in 1..Len((loc[r].existingDocuments \o loc[r].newlyProcessedDocuments)) :
                       (loc[r].existingDocuments \o loc[r].newlyProcessedDocuments)[i].fileName = basename(filePath)
       IN /\ \/ /\ ~known
                /\ \E pages \in OcrPageLists(loc[r].fileContent) :
                     loc' = [loc EXCEPT
                               ![r].newlyProcessedDocuments =
                                   Append(@, OCRResponse(basename(filePath), pages)),
                               ![r].fileIndex = @ + 1,
                               ![r].fileContent = <<>>]
             \/ /\ known
                /\ loc' = [loc EXCEPT ![r].fileIndex = @ + 1,
                                      ![r].fileContent = <<>>]
          /\ tmpdir' = {f \in tmpdir : f[1] # basename(filePath)}
    /\ pc' = [pc EXCEPT ![r] = NextFile(r)]
    /\ UNCHANGED <<chat_sessions, user_usage, req, res,
                   exchanges, returned,
                   document_analysis,
                   chat_history, activeChats, uuids>>

\* step 3, second half: processDocumentOcr returns the pages with the file
\* name attached and the result is pushed, or it throws and the file is
\* skipped; the finally block unlinks the temporary copy either way
ProcessDocumentOcr(r) ==
    /\ pc[r] = "processDocumentOcr"
    /\ LET filePath == req[r].filePaths[loc[r].fileIndex]
       IN /\ \/ \E pages \in OcrPageLists(loc[r].fileContent) :
                  loc' = [loc EXCEPT
                            ![r].newlyProcessedDocuments =
                                Append(@, OCRResponse(basename(filePath), pages)),
                            ![r].fileIndex = @ + 1,
                            ![r].fileContent = <<>>]
             \/ loc' = [loc EXCEPT ![r].fileIndex = @ + 1,
                                   ![r].fileContent = <<>>,
                                   ![r].skipped = @ \cup {loc[r].fileIndex}]
          /\ tmpdir' = {f \in tmpdir : f[1] # basename(filePath)}
    /\ pc' = [pc EXCEPT ![r] = NextFile(r)]
    /\ UNCHANGED <<chat_sessions, user_usage, req, res,
                   exchanges, returned,
                   document_analysis,
                   chat_history, activeChats, uuids>>

\* steps 4-6: the message list is built, sendMessageStream converts it and
\* injects the document context, and client.chat.stream either opens the
\* stream or throws into the catch block (no header has been sent yet)
messagesToMistral(historyMessages, prompt) ==
    << Message("system", StringContent(legaltrainPrompt)) >>
    \o historyMessages
    \o << Message("user", StringContent(prompt)) >>

\* variant: the new documents come first
allDocumentsForContext_newFirst(existingDocuments, newlyProcessedDocuments) ==
    newlyProcessedDocuments \o existingDocuments

allDocumentsForContext(existingDocuments, newlyProcessedDocuments) ==
    existingDocuments \o newlyProcessedDocuments

\* variant: the session id is sent along with the messages
SendMessageStream_withId(r) ==
    /\ pc[r] = "sendMessageStream"
    /\ loc' = [loc EXCEPT ![r].sdkMessages =
           sendMessageStreamMessages(
               messagesToMistral(loc[r].historyMessages, req[r].prompt),
               allDocumentsForContext(loc[r].existingDocuments,
                                      loc[r].newlyProcessedDocuments))
           \o << Message("user", StringContent(
                    <<"session", ToString(loc[r].finalSessionId)>>)) >>]
    /\ res' = res
    /\ pc' = [pc EXCEPT ![r] = "stream"]
    /\ UNCHANGED <<chat_sessions, user_usage, tmpdir, req,
                   exchanges, returned,
                   document_analysis,
                   chat_history, activeChats, uuids>>

SendMessageStream(r) ==
    /\ pc[r] = "sendMessageStream"
    /\ \E ok \in BOOLEAN :
         /\ loc' = [loc EXCEPT ![r].sdkMessages =
                sendMessageStreamMessages(
                    messagesToMistral(loc[r].historyMessages, req[r].prompt),
                    allDocumentsForContext(loc[r].existingDocuments,
                                           loc[r].newlyProcessedDocuments))]
         /\ IF ok
            THEN /\ res' = res
                 /\ pc' = [pc EXCEPT ![r] = "stream"]
            ELSE /\ res' = [res EXCEPT ![r] = CatchError(@)]
                 /\ pc' = [pc EXCEPT ![r] = "Aborted"]
    /\ UNCHANGED <<chat_sessions, user_usage, tmpdir, req,
                   exchanges, returned,
                   document_analysis,
                   chat_history, activeChats, uuids>>

\* variant: the first usage is kept
captureUsage_first(tokenUsage, usage) ==
    IF tokenUsage.present THEN tokenUsage ELSE usage

\* if (chunk?.data?.usage) tokenUsage = chunk.data.usage
captureUsage(tokenUsage, usage) ==
    IF usage.present THEN usage ELSE tokenUsage

\* variant: a unit is either a usage unit or a text unit (else-if), so the
\* delta of a unit that carries usage is not relayed
StreamUnit_elseIf(r) ==
    /\ pc[r] = "stream"
    /\ loc[r].units < MaxStream
    /\ \E content \in Deltas(loc[r].units + 1),
          usage \in Usages(loc[r].units + 1) :
         /\ loc' = [loc EXCEPT
                ![r].units = @ + 1,
                ![r].yielded = Append(@, content),
                ![r].usageUnit = IF usage.present THEN loc[r].units + 1 ELSE @,
                ![r].tokenUsage = captureUsage(@, usage),
                ![r].assistantResponseContent =
                    IF content # <<>> /\ ~usage.present THEN @ \o content
                    ELSE @]
         /\ res' = [res EXCEPT ![r] =
                IF content # <<>> /\ ~usage.present THEN Write(@, content)
                ELSE @]
    /\ UNCHANGED <<chat_sessions, user_usage, tmpdir, pc, req,
                   exchanges, returned,
                   document_analysis,
                   chat_history, activeChats, uuids>>

\* step 7, one iteration of the for-await loop: usage on the unit replaces
\* tokenUsage, a non-empty delta is written and accumulated
StreamUnit(r) ==
    /\ pc[r] = "stream"
    /\ loc[r].units < MaxStream
    /\ \E content \in Deltas(loc[r].units + 1),
          usage \in Usages(loc[r].units + 1) :
         /\ loc' = [loc EXCEPT
                ![r].units = @ + 1,
                ![r].yielded = Append(@, content),
                ![r].usageUnit = IF usage.present THEN loc[r].units + 1 ELSE @,
                ![r].tokenUsage = captureUsage(@, usage),
                ![r].assistantResponseContent =
                    IF content # <<>> THEN @ \o content ELSE @]
         /\ res' = [res EXCEPT ![r] =
                IF content # <<>> THEN Write(@, content) ELSE @]
    /\ UNCHANGED <<chat_sessions, user_usage, tmpdir, pc, req,
                   exchanges, returned,
                   document_analysis,
                   chat_history, activeChats, uuids>>

\* the caller closes the connection while the model stream is relayed; the
\* handler has no listener for it
ClientDisconnect(r) ==
    /\ pc[r] = "stream"
    /\ ~res[r].destroyed
    /\ res' = [res EXCEPT ![r].destroyed = TRUE]
    /\ UNCHANGED <<chat_sessions, user_usage, document_analysis, tmpdir, pc,
                   req, loc, exchanges, returned,
                   chat_history, activeChats, uuids>>

\* variant: the response is left open while the turn is persisted
StreamEnd_open(r) ==
    /\ pc[r] = "stream"
    /\ res' = res
    /\ pc' = [pc EXCEPT ![r] =
                IF loc[r].tokenUsage.present THEN "trackUserUsage"
                ELSE "updateChatSession"]
    /\ UNCHANGED <<chat_sessions, user_usage, tmpdir, req, loc,
                   exchanges, returned,
                   document_analysis,
                   chat_history, activeChats, uuids>>

\* the stream completes: res.end(), then the ledger write when usage was
\* captured, else the session update
StreamEnd(r) ==
    /\ pc[r] = "stream"
    /\ res' = [res EXCEPT ![r] = End(@)]
    /\ pc' = [pc EXCEPT ![r] =
                IF loc[r].tokenUsage.present THEN "trackUserUsage"
                ELSE "updateChatSession"]
    /\ UNCHANGED <<chat_sessions, user_usage, tmpdir, req, loc,
                   exchanges, returned,
                   document_analysis,
                   chat_history, activeChats, uuids>>

\* variant: after a stream error the response is ended and the turn is
\* persisted all the same
StreamError_persist(r) ==
    /\ pc[r] = "stream"
    /\ res' = [res EXCEPT ![r] = CatchError(@)]
    /\ loc' = [loc EXCEPT ![r].streamError = TRUE]
    /\ pc' = [pc EXCEPT ![r] = "updateChatSession"]
    /\ UNCHANGED <<chat_sessions, user_usage, tmpdir, req,
                   exchanges, returned,
                   document_analysis,
                   chat_history, activeChats, uuids>>

\* the stream throws: the catch block sends the 500 body when nothing was
\* written, else ends the response
StreamError(r) ==
    /\ pc[r] = "stream"
    /\ res' = [res EXCEPT ![r] = CatchError(@)]
    /\ loc' = [loc EXCEPT ![r].streamError = TRUE]
    /\ pc' = [pc EXCEPT ![r] = "Aborted"]
    /\ UNCHANGED <<chat_sessions, user_usage, tmpdir, req,
                   exchanges, returned,
                   document_analysis,
                   chat_history, activeChats, uuids>>

\* variant: the ledger entry is inserted twice
TrackUserUsage_twice(r) ==
    /\ pc[r] = "trackUserUsage"
    /\ user_usage' = user_usage
          \o << [user_id |-> loc[r].userId, usage_type |-> "chat",
                 token_count |-> loc[r].tokenUsage.totalTokens],
                [user_id |-> loc[r].userId, usage_type |-> "chat",
                 token_count |-> loc[r].tokenUsage.totalTokens] >>
    /\ pc' = [pc EXCEPT ![r] = "updateChatSession"]
    /\ UNCHANGED <<chat_sessions, tmpdir, req, loc, res,
                   exchanges, returned,
                   document_analysis,
                   chat_history, activeChats, uuids>>

\* trackUserUsage(userId, 'chat', totalTokens, jwt): the entry is inserted,
\* or the insert fails and the failure is either swallowed or thrown into
\* the catch block of the handler
TrackUserUsage(r) ==
    /\ pc[r] = "trackUserUsage"
    /\ \E outcome \in {"ok", "swallowed", "thrown"} :
         /\ user_usage' =
              IF outcome = "ok"
              THEN Append(user_usage,
                     [user_id |-> loc[r].userId, usage_type |-> "chat",
                      token_count |-> loc[r].tokenUsage.totalTokens])
              ELSE user_usage
         /\ res' = [res EXCEPT ![r] =
                      IF outcome = "thrown" THEN CatchError(@) ELSE @]
         /\ pc' = [pc EXCEPT ![r] =
                      IF outcome = "thrown" THEN "Aborted"
                      ELSE "updateChatSession"]
    /\ UNCHANGED <<chat_sessions, tmpdir, req, loc,
                   exchanges, returned,
                   document_analysis,
                   chat_history, activeChats, uuids>>

\* variant: the session update runs in a finally block, after an abort too
UpdateRead_finally(r) ==
    /\ pc[r] \in {"updateChatSession", "Aborted"}
    /\ loc[r].finalSessionId # 0
    /\ \E dbOk \in BOOLEAN :
         LET currentSession == getChatSessionById(chat_sessions,
                                   loc[r].finalSessionId, loc[r].jwt, dbOk)
         IN IF currentSession.exists
            THEN /\ loc' = [loc EXCEPT ![r].currentSession =
                              [user_id |-> currentSession.userId,
                               messages |-> currentSession.messages,
                               documents |-> currentSession.documents]]
                 /\ pc' = [pc EXCEPT ![r] = "update"]
            ELSE /\ loc' = loc
                 /\ pc' = [pc EXCEPT ![r] = "Done"]
    /\ UNCHANGED <<chat_sessions, user_usage, tmpdir, req, res,
                   exchanges, returned,
                   document_analysis,
                   chat_history, activeChats, uuids>>

\* step 8, updateChatSession first half: the current row is read; when it
\* does not come back the update is given up (logged only)
UpdateRead(r) ==
    /\ pc[r] = "updateChatSession"
    /\ \E dbOk \in BOOLEAN :
         LET currentSession == getChatSessionById(chat_sessions,
                                   loc[r].finalSessionId, loc[r].jwt, dbOk)
         IN IF currentSession.exists
            THEN /\ loc' = [loc EXCEPT ![r].currentSession =
                              [user_id |-> currentSession.userId,
                               messages |-> currentSession.messages,
                               documents |-> currentSession.documents]]
                 /\ pc' = [pc EXCEPT ![r] = "update"]
            ELSE /\ loc' = loc
                 /\ pc' = [pc EXCEPT ![r] = "Done"]
    /\ UNCHANGED <<chat_sessions, user_usage, tmpdir, req, res,
                   exchanges, returned,
                   document_analysis,
                   chat_history, activeChats, uuids>>

\* variant: the prompt is stored in the chunk form of the model call
newUserMessage_chunks(prompt) ==
    Message("user", ChunkContent(<< TextChunk(prompt) >>))

\* the two messages of the exchange: the original prompt and the text
\* accumulated from the stream
newUserMessage(prompt) == Message("user", StringContent(prompt))
newAssistantMessage(assistantResponseContent) ==
    Message("assistant", StringContent(assistantResponseContent))

\* variant: the system prompt is persisted with the exchange
newMessages_withSystem(prompt, assistantResponseContent) ==
    << Message("system", StringContent(legaltrainPrompt)),
       Message("user", StringContent(prompt)),
       Message("assistant", StringContent(assistantResponseContent)) >>

\* the exchange the handler appends
newMessages(prompt, assistantResponseContent) ==
    << newUserMessage(prompt),
       newAssistantMessage(assistantResponseContent) >>

\* variant: the exchange and the documents are appended to the row as it
\* is stored at the time of the write
UpdateWrite_atomic(r) ==
    /\ pc[r] = "update"
    /\ \E dbOk \in BOOLEAN :
         IF dbOk /\ RlsVisible(chat_sessions[loc[r].finalSessionId], loc[r].jwt)
         THEN /\ chat_sessions' = [chat_sessions EXCEPT
                    ![loc[r].finalSessionId].messages =
                        @ \o newMessages(req[r].prompt,
                                         loc[r].assistantResponseContent),
                    ![loc[r].finalSessionId].documents =
                        @ \o loc[r].newlyProcessedDocuments]
              /\ exchanges' = [exchanges EXCEPT ![loc[r].finalSessionId] = @ + 1]
              /\ loc' = [loc EXCEPT ![r].persisted = TRUE,
                                    ![r].currentSession = IdleLoc.currentSession]
         ELSE /\ loc' = [loc EXCEPT
                            ![r].currentSession = IdleLoc.currentSession]
              /\ UNCHANGED <<chat_sessions, exchanges>>
    /\ pc' = [pc EXCEPT ![r] = "Done"]
    /\ UNCHANGED <<user_usage, tmpdir, req, res, returned,
                   document_analysis,
                   chat_history, activeChats, uuids>>

\* updateChatSession second half: the row is overwritten with the arrays
\* read before plus the new exchange and documents, or the update fails;
\* either way the function returns and its local is gone
UpdateWrite(r) ==
    /\ pc[r] = "update"
    /\ \E dbOk \in BOOLEAN :
         IF dbOk /\ RlsVisible(chat_sessions[loc[r].finalSessionId], loc[r].jwt)
         THEN /\ chat_sessions' = [chat_sessions EXCEPT
                    ![loc[r].finalSessionId].messages =
                        updatedMessages(loc[r].currentSession,
                            newMessages(req[r].prompt,
                                        loc[r].assistantResponseContent)),
                    ![loc[r].finalSessionId].documents =
                        updatedDocuments(loc[r].currentSession,
                                         loc[r].newlyProcessedDocuments)]
              /\ exchanges' = [exchanges EXCEPT ![loc[r].finalSessionId] = @ + 1]
              /\ loc' = [loc EXCEPT ![r].persisted = TRUE,
                                    ![r].currentSession = IdleLoc.currentSession]
         ELSE /\ loc' = [loc EXCEPT
                            ![r].currentSession = IdleLoc.currentSession]
              /\ UNCHANGED <<chat_sessions, exchanges>>
    /\ pc' = [pc EXCEPT ![r] = "Done"]
    /\ UNCHANGED <<user_usage, tmpdir, req, res, returned,
                   document_analysis,
                   chat_history, activeChats, uuids>>

\* the handler has returned and the response is complete: the request and
\* response objects are gone
Finish(r) ==
    /\ pc[r] \in {"Done", "Aborted", "Rejected"}
    /\ returned' =
         IF pc[r] = "Done" /\ loc[r].persisted
         THEN returned \cup
                {[user |-> loc[r].userId, id |-> res[r].xChatId,
                  exchange |->
                    << Message("user", StringContent(req[r].prompt)),
                       Message("assistant",
                               StringContent(Flatten(res[r].body))) >>]}
         ELSE returned
    /\ pc' = [pc EXCEPT ![r] = "closed"]
    /\ req' = [req EXCEPT ![r] = IdleReq]
    /\ loc' = [loc EXCEPT ![r] = IdleLoc]
    /\ res' = [res EXCEPT ![r] = IdleRes]
    /\ UNCHANGED <<chat_sessions, user_usage, tmpdir, exchanges,
                   document_analysis,
                   chat_history, activeChats, uuids>>

\* ------------------------------------------------------------ processOcr
\* the catch block of processOcr
OcrCatchError(response) ==
    IF ~response.headersSent
    THEN SendJson(response, 500, "Failed to process the Mistral OCR request")
    ELSE IF ~response.writableEnded THEN End(response)
    ELSE response

\* the checks of the Authorization header and of req.user
OcrValidate(r) ==
    /\ pc[r] = "processOcr"
    /\ IF ~(req[r].authorization.present /\ req[r].authorization.scheme = "Bearer")
       THEN /\ res' = [res EXCEPT ![r] =
                         SendJson(@, 401, "Unauthorized: Missing or invalid JWT token")]
            /\ pc' = [pc EXCEPT ![r] = "Rejected"]
            /\ loc' = loc
       ELSE IF req[r].user = ""
       THEN /\ res' = [res EXCEPT ![r] = SendJson(@, 401, "User not authenticated")]
            /\ pc' = [pc EXCEPT ![r] = "Rejected"]
            /\ loc' = loc
       ELSE /\ res' = res
            /\ loc' = [loc EXCEPT ![r].jwt = req[r].authorization.token,
                                  ![r].userId = req[r].user,
                                  ![r].fileIndex = 1]
            /\ pc' = [pc EXCEPT ![r] = "ocr.downloadFile"]
    /\ UNCHANGED <<chat_sessions, user_usage, document_analysis, tmpdir, req,
                   exchanges, returned,
                   chat_history, activeChats, uuids>>

\* downloadFile writes the temporary copy and returns its path, or throws
\* into the catch block with tempFilePath still null
OcrDownloadFile(r) ==
    /\ pc[r] = "ocr.downloadFile"
    /\ LET filePath == req[r].filePaths[1]
       IN \E ok \in BOOLEAN :
            IF ok
            THEN /\ tmpdir' = {f \in tmpdir : f[1] # basename(filePath)}
                                \cup {<<basename(filePath), filePath>>}
                 /\ res' = res
                 /\ loc' = loc
                 /\ pc' = [pc EXCEPT ![r] = "ocr.readFileSync"]
            ELSE /\ tmpdir' = tmpdir
                 /\ res' = [res EXCEPT ![r] = OcrCatchError(@)]
                 /\ loc' = [loc EXCEPT ![r].skipped = {1}]
                 /\ pc' = [pc EXCEPT ![r] = "Aborted"]
    /\ UNCHANGED <<chat_sessions, user_usage, document_analysis, req,
                   exchanges, returned,
                   chat_history, activeChats, uuids>>

\* readFileSync returns the content under the temporary path, or throws
\* into the catch block; the finally block unlinks the path
OcrReadFileSync(r) ==
    /\ pc[r] = "ocr.readFileSync"
    /\ LET filePath == req[r].filePaths[1]
           files == {f \in tmpdir : f[1] = basename(filePath)}
       IN \E ok \in BOOLEAN :
            IF files # {} /\ ok
            THEN /\ loc' = [loc EXCEPT ![r].fileContent =
                                     (CHOOSE f \in files : TRUE)[2]]
                 /\ res' = res
                 /\ tmpdir' = tmpdir
                 /\ pc' = [pc EXCEPT ![r] = "ocr.processDocumentOcr"]
            ELSE /\ loc' = [loc EXCEPT ![r].skipped = {1}]
                 /\ res' = [res EXCEPT ![r] = OcrCatchError(@)]
                 /\ tmpdir' = tmpdir \ files
                 /\ pc' = [pc EXCEPT ![r] = "Aborted"]
    /\ UNCHANGED <<chat_sessions, user_usage, document_analysis, req,
                   exchanges, returned,
                   chat_history, activeChats, uuids>>

\* processDocumentOcr returns and the result is the 200 answer, or it
\* throws into the catch block; the finally block unlinks the path
OcrProcessDocumentOcr(r) ==
    /\ pc[r] = "ocr.processDocumentOcr"
    /\ LET filePath == req[r].filePaths[1]
       IN /\ \/ \E pages \in OcrPageLists(loc[r].fileContent) :
                  /\ loc' = [loc EXCEPT ![r].newlyProcessedDocuments =
                                 << OCRResponse(basename(filePath), pages) >>]
                  /\ res' = [res EXCEPT ![r] = SendJson(@, 200, "")]
                  /\ pc' = [pc EXCEPT ![r] = "Done"]
             \/ /\ loc' = [loc EXCEPT ![r].skipped = {1}]
                /\ res' = [res EXCEPT ![r] = OcrCatchError(@)]
                /\ pc' = [pc EXCEPT ![r] = "Aborted"]
          /\ tmpdir' = {f \in tmpdir : f[1] # basename(filePath)}
    /\ UNCHANGED <<chat_sessions, user_usage, document_analysis, req,
                   exchanges, returned,
                   chat_history, activeChats, uuids>>

\* ------------------------------------------------- analyzeChatDocuments
documentAnalysisPrompt == <<"documentAnalysisPrompt">>
\* the user message of the analysis request
userContent(prompt) ==
    IF prompt # <<>> THEN prompt \o <<"zusaetzliche Instruktionen">>
    ELSE <<"Bitte analysiere die bereitgestellten Dokumente">>

\* getStructuredJsonResponse after client.chat.complete returned `reply`:
\* the parsed content and the usage, or an exception
getStructuredJsonResponse(reply) ==
    IF reply.thrown \/ reply.content \in {"none", "chunks", "text"}
    THEN [thrown |-> TRUE, result |-> AnalysisResult(TRUE, <<>>),
          usage |-> NoUsage]
    ELSE [thrown |-> FALSE,
          result |-> IF reply.content = "json_array"
                     THEN AnalysisResult(TRUE, <<"finding1", "finding2">>)
                     ELSE AnalysisResult(FALSE, <<"object">>),
          usage |-> reply.usage]

\* the checks of the Authorization header and of req.user
AnalyzeValidate(r) ==
    /\ pc[r] = "analyzeChatDocuments"
    /\ IF ~(req[r].authorization.present /\ req[r].authorization.scheme = "Bearer")
       THEN /\ res' = [res EXCEPT ![r] =
                         SendJson(@, 401, "Unauthorized: Missing or invalid JWT token")]
            /\ pc' = [pc EXCEPT ![r] = "Rejected"]
            /\ loc' = loc
       ELSE IF req[r].user = ""
       THEN /\ res' = [res EXCEPT ![r] = SendJson(@, 401, "User not authenticated")]
            /\ pc' = [pc EXCEPT ![r] = "Rejected"]
            /\ loc' = loc
       ELSE /\ res' = res
            /\ loc' = [loc EXCEPT ![r].jwt = req[r].authorization.token,
                                  ![r].userId = req[r].user]
            /\ pc' = [pc EXCEPT ![r] = "analyze.getChatSessionById"]
    /\ UNCHANGED <<chat_sessions, user_usage, document_analysis, tmpdir, req,
                   exchanges, returned,
                   chat_history, activeChats, uuids>>

\* variant: a session without documents is analysed all the same
AnalyzeLookup_noGuard(r) ==
    /\ pc[r] = "analyze.getChatSessionById"
    /\ \E dbOk \in BOOLEAN :
         LET chatSession == getChatSessionById(chat_sessions, req[r].chatId,
                                               loc[r].jwt, dbOk)
         IN IF ~chatSession.exists
            THEN /\ res' = [res EXCEPT ![r] =
                              SendJson(@, 404, "Chat session not found")]
                 /\ pc' = [pc EXCEPT ![r] = "Rejected"]
                 /\ loc' = loc
            ELSE IF chatSession.userId # loc[r].userId
            THEN /\ res' = [res EXCEPT ![r] =
                              SendJson(@, 403, "Unauthorized: You do not have access to this chat session")]
                 /\ pc' = [pc EXCEPT ![r] = "Rejected"]
                 /\ loc' = loc
            ELSE IF FALSE
            THEN /\ res' = [res EXCEPT ![r] =
                              SendJson(@, 400, "No documents available for analysis in this chat session")]
                 /\ pc' = [pc EXCEPT ![r] = "Rejected"]
                 /\ loc' = [loc EXCEPT ![r].finalSessionId = chatSession.id]
            ELSE /\ res' = res
                 /\ loc' = [loc EXCEPT
                        ![r].finalSessionId = chatSession.id,
                        ![r].existingDocuments = chatSession.documents,
                        ![r].sdkMessages =
                            sendMessageStreamMessages(
                                << Message("system", StringContent(documentAnalysisPrompt)),
                                   Message("user", StringContent(userContent(req[r].prompt))) >>,
                                chatSession.documents)]
                 /\ pc' = [pc EXCEPT ![r] = "getStructuredJsonResponse"]
    /\ UNCHANGED <<chat_sessions, user_usage, document_analysis, tmpdir, req,
                   exchanges, returned,
                   chat_history, activeChats, uuids>>

\* getChatSessionById returns: 404 when null, 403 when the row is another
\* user's, 400 when it has no documents, else the messages are built
AnalyzeLookup(r) ==
    /\ pc[r] = "analyze.getChatSessionById"
    /\ \E dbOk \in BOOLEAN :
         LET chatSession == getChatSessionById(chat_sessions, req[r].chatId,
                                               loc[r].jwt, dbOk)
         IN IF ~chatSession.exists
            THEN /\ res' = [res EXCEPT ![r] =
                              SendJson(@, 404, "Chat session not found")]
                 /\ pc' = [pc EXCEPT ![r] = "Rejected"]
                 /\ loc' = loc
            ELSE IF chatSession.userId # loc[r].userId
            THEN /\ res' = [res EXCEPT ![r] =
                              SendJson(@, 403, "Unauthorized: You do not have access to this chat session")]
                 /\ pc' = [pc EXCEPT ![r] = "Rejected"]
                 /\ loc' = loc
            ELSE IF Len(chatSession.documents) = 0
            THEN /\ res' = [res EXCEPT ![r] =
                              SendJson(@, 400, "No documents available for analysis in this chat session")]
                 /\ pc' = [pc EXCEPT ![r] = "Rejected"]
                 /\ loc' = [loc EXCEPT ![r].finalSessionId = chatSession.id]
            ELSE /\ res' = res
                 /\ loc' = [loc EXCEPT
                        ![r].finalSessionId = chatSession.id,
                        ![r].existingDocuments = chatSession.documents,
                        ![r].sdkMessages =
                            sendMessageStreamMessages(
                                << Message("system", StringContent(documentAnalysisPrompt)),
                                   Message("user", StringContent(userContent(req[r].prompt))) >>,
                                chatSession.documents)]
                 /\ pc' = [pc EXCEPT ![r] = "getStructuredJsonResponse"]
    /\ UNCHANGED <<chat_sessions, user_usage, document_analysis, tmpdir, req,
                   exchanges, returned,
                   chat_history, activeChats, uuids>>

\* getStructuredJsonResponse returns or throws; the catch block of the
\* inner try defaults the result to []
AnalyzeModel(r) ==
    /\ pc[r] = "getStructuredJsonResponse"
    /\ \E reply \in CompleteReplies :
         LET response == getStructuredJsonResponse(reply)
         IN IF response.thrown
            THEN /\ loc' = [loc EXCEPT
                              ![r].analysisResult = AnalysisResult(TRUE, <<>>),
                              ![r].replyContent =
                                  IF reply.thrown THEN "thrown"
                                  ELSE reply.content]
                 /\ pc' = [pc EXCEPT ![r] = "createDocumentAnalysis"]
            ELSE /\ loc' = [loc EXCEPT ![r].analysisResult = response.result,
                                       ![r].modelReply = response.result,
                                       ![r].replyContent = reply.content,
                                       ![r].parsed = TRUE,
                                       ![r].tokenUsage = response.usage]
                 /\ pc' = [pc EXCEPT ![r] =
                              IF response.usage.present
                              THEN "analyze.trackUserUsage"
                              ELSE "createDocumentAnalysis"]
    /\ UNCHANGED <<chat_sessions, user_usage, document_analysis, tmpdir, req,
                   res, exchanges, returned,
                   chat_history, activeChats, uuids>>

\* trackUserUsage(userId, 'analysis', totalTokens, jwt) inside the inner
\* try: the entry is inserted, or the insert fails and the failure is
\* swallowed, or it is thrown and the inner catch defaults the result to []
AnalyzeTrackUserUsage(r) ==
    /\ pc[r] = "analyze.trackUserUsage"
    /\ \E outcome \in {"ok", "swallowed", "thrown"} :
         /\ user_usage' =
              IF outcome = "ok"
              THEN Append(user_usage,
                     [user_id |-> loc[r].userId, usage_type |-> "analysis",
                      token_count |-> loc[r].tokenUsage.totalTokens])
              ELSE user_usage
         /\ loc' = [loc EXCEPT ![r].analysisResult =
                      IF outcome = "thrown" THEN AnalysisResult(TRUE, <<>>)
                      ELSE @]
    /\ pc' = [pc EXCEPT ![r] = "createDocumentAnalysis"]
    /\ UNCHANGED <<chat_sessions, document_analysis, tmpdir, req, res,
                   exchanges, returned,
                   chat_history, activeChats, uuids>>

\* createDocumentAnalysis(chatId, userId, prompt, analysisResult, jwt): the
\* record is inserted and comes back with its id, or null comes back, or
\* the call throws into the outer catch; then the 200 answer is sent
CreateDocumentAnalysis(r) ==
    /\ pc[r] = "createDocumentAnalysis"
    /\ \E outcome \in {"ok", "null", "thrown"} :
         /\ document_analysis' =
              IF outcome = "ok"
              THEN Append(document_analysis,
                     [chat_id |-> req[r].chatId, user_id |-> loc[r].userId,
                      prompt |-> IF req[r].prompt # <<>> THEN req[r].prompt
                                 ELSE <<"Standard document analysis">>,
                      analysis |-> loc[r].analysisResult])
              ELSE document_analysis
         /\ IF outcome = "thrown"
            THEN /\ res' = [res EXCEPT ![r] =
                              SendJson(@, 500, "Failed to analyze the chat documents")]
                 /\ pc' = [pc EXCEPT ![r] = "Aborted"]
            ELSE /\ res' = [res EXCEPT ![r] =
                              [@ EXCEPT !.statusCode = 200, !.headersSent = TRUE,
                                        !.writableEnded = TRUE,
                                        !.ends = @ + 1,
                                        !.payload =
                                          [sent |-> TRUE,
                                           analysis |-> loc[r].analysisResult,
                                           recordId |->
                                             IF outcome = "ok"
                                             THEN Len(document_analysis) + 1
                                             ELSE 0,
                                           tokenUsage |-> loc[r].tokenUsage]]]
                 /\ pc' = [pc EXCEPT ![r] = "Done"]
    /\ UNCHANGED <<chat_sessions, user_usage, tmpdir, req, loc,
                   exchanges, returned,
                   chat_history, activeChats, uuids>>

\* the ids a client may put into req.body.chatId
ChatIds == {NoChatId, StaleChatId} \cup (1..Len(chat_sessions))

\* the steps of the handler that deal with the files of the request
HandleFiles ==
    \/ \E r \in Reqs : DownloadFile(r)
    \/ \E r \in Reqs : ReadFileSync(r)
    \/ \E r \in Reqs : ProcessDocumentOcr(r)

\* the other steps of the handler
HandleChat ==
    \/ \E r \in Reqs : Validate(r)
    \/ \E r \in Reqs : ResolveSession(r)
    \/ \E r \in Reqs : CreatePlaceholder(r)
    \/ \E r \in Reqs : SendMessageStream(r)
    \/ \E r \in Reqs : StreamUnit(r)
    \/ \E r \in Reqs : StreamEnd(r)
    \/ \E r \in Reqs : StreamError(r)
    \/ \E r \in Reqs : TrackUserUsage(r)
    \/ \E r \in Reqs : UpdateRead(r)
    \/ \E r \in Reqs : UpdateWrite(r)
    \/ \E r \in Reqs : Finish(r)

\* the steps of analyzeChatDocuments
HandleAnalyze ==
    \/ \E r \in Reqs : AnalyzeValidate(r)
    \/ \E r \in Reqs : AnalyzeLookup(r)
    \/ \E r \in Reqs : AnalyzeModel(r)
    \/ \E r \in Reqs : AnalyzeTrackUserUsage(r)
    \/ \E r \in Reqs : CreateDocumentAnalysis(r)
    \/ \E r \in Reqs : Finish(r)

\* one request, with any header, prompt, chat id and file list
Receive ==
    /\ pc[1] = "idle"
    /\ \E authorization \in AuthHeaders, prompt \in Prompts(1),
          chatId \in ChatIds, filePaths \in SeqsUpTo(FilePaths, MaxFiles) :
         authenticateToken("streamMistralChat", 1, authorization, prompt,
                           chatId, filePaths)

Next == Receive \/ HandleChat \/ HandleFiles

Spec == Init /\ [][Next]_vars

\* one request of u1, or one without a token that verifies, with any
\* prompt and chat id and up to MaxFiles copies of the contract as files
ReceiveLive ==
    /\ pc[1] = "idle"
    /\ \E authorization \in {a \in AuthHeaders : a.token # "u2"},
          prompt \in Prompts(1), chatId \in ChatIds,
          filePaths \in SeqsUpTo({<<"u1", "contract.pdf">>}, MaxFiles) :
         authenticateToken("streamMistralChat", 1, authorization, prompt,
                           chatId, filePaths)

NextLive == ReceiveLive \/ HandleChat \/ HandleFiles

\* every call a handler awaits returns or throws, and the model stream is
\* finite: a handler that can take a step eventually takes one
SpecLive == Init /\ [][NextLive]_vars /\ WF_vars(HandleChat \/ HandleFiles)

\* requests arrive in the order of their numbers and do not overlap: one
\* arrives only when the handling of the earlier ones is over
InTurn(r) == \A q \in Reqs \ {r} : pc[q] = IF q < r THEN "closed" ELSE "idle"

\* a sequence of requests without files, one after the other
ReceiveInTurn ==
    \E r \in Reqs :
      /\ pc[r] = "idle"
      /\ InTurn(r)
      /\ \E authorization \in AuthHeaders, prompt \in Prompts(r),
            chatId \in ChatIds :
           authenticateToken("streamMistralChat", r, authorization, prompt,
                             chatId, <<>>)

NextSeq == ReceiveInTurn \/ HandleChat

SpecSeq == Init /\ [][NextSeq]_vars

\* requests without files, one after the other, whose callers may
\* disconnect during the relay
NextDisconnect ==
    \/ ReceiveInTurn
    \/ HandleChat
    \/ \E r \in Reqs : ClientDisconnect(r)

SpecDisconnect == Init /\ [][NextDisconnect]_vars

\* the Bearer header of a user
Bearer(user) == [present |-> TRUE, scheme |-> "Bearer", token |-> user]

\* one iteration of the relay loop on a unit with a text delta and no
\* usage: the concurrent requests are answered with such units only, so
\* none of them writes to the ledger
StreamTextUnit(r) ==
    /\ StreamUnit(r)
    /\ loc'[r].tokenUsage = loc[r].tokenUsage
    /\ Len(res'[r].body) > Len(res[r].body)

HandleChatConcurrent ==
    \/ \E r \in Reqs : Validate(r)
    \/ \E r \in Reqs : ResolveSession(r)
    \/ \E r \in Reqs : CreatePlaceholder(r)
    \/ \E r \in Reqs : SendMessageStream(r)
    \/ \E r \in Reqs : StreamTextUnit(r)
    \/ \E r \in Reqs : StreamEnd(r)
    \/ \E r \in Reqs : StreamError(r)
    \/ \E r \in Reqs : UpdateRead(r)
    \/ \E r \in Reqs : UpdateWrite(r)
    \/ \E r \in Reqs : Finish(r)

HandleFilesConcurrent ==
    \/ \E r \in Reqs : DownloadFile(r)
    \/ \E r \in Reqs : ReadFileSync(r)
    \/ \E r \in Reqs : ProcessDocumentOcr(r)

\* concurrent requests of the owner of session 1 against that session,
\* without files: they arrive at any time and their steps interleave
ReceiveConcurrent ==
    \E r \in Reqs :
      /\ pc[r] = "idle"
      /\ authenticateToken("streamMistralChat", r, Bearer("u1"),
                           <<"prompt", ToString(r)>>, 1, <<>>)

NextRace == ReceiveConcurrent \/ HandleChatConcurrent

SpecRace == Init /\ [][NextRace]_vars

\* concurrent requests for new sessions, each with one file; the files
\* have the same base name
ReceiveSameName ==
    \E r \in Reqs :
      /\ pc[r] = "idle"
      /\ \E filePath \in SameNamePaths, chatId \in {NoChatId, 1} :
           authenticateToken("streamMistralChat", r, Bearer("u1"),
                             <<"prompt", ToString(r)>>, chatId,
                             << filePath >>)

NextTmp == ReceiveSameName \/ HandleChatConcurrent \/ HandleFilesConcurrent

SpecTmp == Init /\ [][NextTmp]_vars

\* two concurrent requests with the same prompt, of either user for the
\* stored session of that user, with or without the scan as file
ReceiveSamePrompt ==
    \E r \in Reqs :
      /\ pc[r] = "idle"
      /\ \E chatId \in 1..Len(SeedSessions),
            filePaths \in {<<>>, << <<"u2", "scan.png">> >>} :
           authenticateToken("streamMistralChat", r,
                             Bearer(SeedSessions[chatId].user_id),
                             <<"prompt", "0">>, chatId, filePaths)

NextMerge == ReceiveSamePrompt \/ HandleChatConcurrent \/ HandleFilesConcurrent

SpecMerge == Init /\ [][NextMerge]_vars

\* a sequence of analysis requests, one after the other; the chat id is a
\* path parameter and never absent
ReceiveAnalyze ==
    \E r \in Reqs :
      /\ pc[r] = "idle"
      /\ InTurn(r)
      /\ \E authorization \in AuthHeaders, prompt \in Prompts(r),
            chatId \in ChatIds \ {NoChatId} :
           authenticateToken("analyzeChatDocuments", r, authorization,
                             prompt, chatId, <<>>)

NextAnalyze == ReceiveAnalyze \/ HandleAnalyze

SpecAnalyze == Init /\ [][NextAnalyze]_vars

\* requests without files, one after the other, each to the chat handler
\* or to the analysis handler
NextLedger == ReceiveInTurn \/ ReceiveAnalyze \/ HandleChat \/ HandleAnalyze

SpecLedger == Init /\ [][NextLedger]_vars

\* requests of u1 with files, one after the other, each for a new session
\* or for a session of u1 that is stored when the request arrives
ReceiveFilesInTurn ==
    \E r \in Reqs :
      /\ pc[r] = "idle"
      /\ InTurn(r)
      /\ \E chatId \in {NoChatId} \cup
                        {s \in 1..Len(chat_sessions) :
                            chat_sessions[s].user_id = "u1"},
            filePaths \in SeqsUpTo(FilePaths, MaxFiles) :
           authenticateToken("streamMistralChat", r, Bearer("u1"),
                             <<"prompt", ToString(r)>>, chatId, filePaths)

\* the steps of streamMistralChat when the model stream ends, or fails,
\* without having yielded a unit
HandleChatNoUnits ==
    \/ \E r \in Reqs : Validate(r)
    \/ \E r \in Reqs : ResolveSession(r)
    \/ \E r \in Reqs : CreatePlaceholder(r)
    \/ \E r \in Reqs : SendMessageStream(r)
    \/ \E r \in Reqs : StreamEnd(r)
    \/ \E r \in Reqs : StreamError(r)
    \/ \E r \in Reqs : UpdateRead(r)
    \/ \E r \in Reqs : UpdateWrite(r)
    \/ \E r \in Reqs : Finish(r)

NextDocs == ReceiveFilesInTurn \/ HandleChatNoUnits \/ HandleFiles

SpecDocs == Init /\ [][NextDocs]_vars

\* the steps of processOcr
HandleOcr ==
    \/ \E r \in Reqs : OcrValidate(r)
    \/ \E r \in Reqs : OcrDownloadFile(r)
    \/ \E r \in Reqs : OcrReadFileSync(r)
    \/ \E r \in Reqs : OcrProcessDocumentOcr(r)

\* concurrent requests of u1, each to the chat handler for a new session
\* with one file listed MaxFiles times, or to the OCR handler with one
\* file; the files have the same base name
ReceiveWithFiles ==
    \E r \in Reqs :
      /\ pc[r] = "idle"
      /\ \/ \E filePath \in SameNamePaths :
              authenticateToken("streamMistralChat", r, Bearer("u1"),
                                <<"prompt", "0">>, NoChatId,
                                [i \in 1..MaxFiles |-> filePath])
         \/ \E filePath \in SameNamePaths :
              authenticateToken("processOcr", r, Bearer("u1"), <<>>,
                                NoChatId, << filePath >>)

\* the steps of streamMistralChat for a new session when the model stream
\* ends, or fails, without having yielded a unit
HandleChatNewNoUnits ==
    \/ \E r \in Reqs : Validate(r)
    \/ \E r \in Reqs : CreatePlaceholder(r)
    \/ \E r \in Reqs : SendMessageStream(r)
    \/ \E r \in Reqs : StreamEnd(r)
    \/ \E r \in Reqs : StreamError(r)
    \/ \E r \in Reqs : UpdateRead(r)
    \/ \E r \in Reqs : UpdateWrite(r)
    \/ \E r \in Reqs : Finish(r)

NextRelease ==
    ReceiveWithFiles \/ HandleChatNewNoUnits \/ HandleFiles \/ HandleOcr

SpecRelease == Init /\ [][NextRelease]_vars

\* --------------------------------------------------- streamAssistantChat
\* the rows of chat_history the select .eq('id', chatId) matches
historyRows(chatId) == {row \in chat_history : row.id = chatId}

\* the catch block of streamAssistantChat
AssistantCatchError(response) ==
    IF ~response.headersSent
    THEN SendJson(response, 500, "Failed to process the assistant chat request")
    ELSE IF ~response.writableEnded THEN End(response)
    ELSE response

\* streamAssistantChat up to its first await: the checks of the
\* Authorization header and of req.user; without a chatSessionId the
\* handler runs on to randomUUID() and puts the new id into X-Chat-Id
AssistantValidate(r) ==
    /\ pc[r] = "streamAssistantChat"
    /\ IF ~(req[r].authorization.present /\ req[r].authorization.scheme = "Bearer")
       THEN /\ res' = [res EXCEPT ![r] =
                         SendJson(@, 401, "Authorization header with Bearer token is required")]
            /\ pc' = [pc EXCEPT ![r] = "Rejected"]
            /\ UNCHANGED <<loc, uuids>>
       ELSE IF req[r].user = ""
       THEN /\ res' = [res EXCEPT ![r] = SendJson(@, 401, "User not authenticated")]
            /\ pc' = [pc EXCEPT ![r] = "Rejected"]
            /\ UNCHANGED <<loc, uuids>>
       ELSE IF req[r].chatId # NoChatId
       THEN /\ loc' = [loc EXCEPT ![r].jwt = req[r].authorization.token,
                                  ![r].userId = req[r].user]
            /\ pc' = [pc EXCEPT ![r] = "getChatHistoryById"]
            /\ UNCHANGED <<res, uuids>>
       ELSE /\ loc' = [loc EXCEPT ![r].jwt = req[r].authorization.token,
                                  ![r].userId = req[r].user,
                                  ![r].finalSessionId = randomUUID(uuids + 1)]
            /\ uuids' = uuids + 1
            /\ res' = [res EXCEPT ![r] =
                         SetChatIdHeader(@, randomUUID(uuids + 1))]
            /\ pc' = [pc EXCEPT ![r] = "sendMessageToChatStreamWithHistory"]
    /\ UNCHANGED <<chat_sessions, user_usage, document_analysis, tmpdir, req,
                   exchanges, returned, activeChats, chat_history>>

\* getChatHistoryById returns the stored history or null (no row, or the
\* select failed); either way the handler draws newChatId and puts the
\* supplied chatSessionId into X-Chat-Id
AssistantLookup(r) ==
    /\ pc[r] = "getChatHistoryById"
    /\ \E dbOk \in BOOLEAN :
         LET rows == historyRows(req[r].chatId)
         IN loc' = [loc EXCEPT
                      ![r].historyMessages =
                          IF dbOk /\ rows # {}
                          THEN (CHOOSE row \in rows : TRUE).history
                          ELSE <<>>,
                      ![r].isNewSession = ~(dbOk /\ rows # {}),
                      ![r].finalSessionId = randomUUID(uuids + 1)]
    /\ uuids' = uuids + 1
    /\ res' = [res EXCEPT ![r] = SetChatIdHeader(@, req[r].chatId)]
    /\ pc' = [pc EXCEPT ![r] = "sendMessageToChatStreamWithHistory"]
    /\ UNCHANGED <<chat_sessions, user_usage, document_analysis, tmpdir, req,
                   exchanges, returned, activeChats, chat_history>>

\* sendMessageToChatStreamWithHistory returns the stream and
\* chat.getHistory(), or throws into the catch block. Whether the history
\* the SDK hands out at that moment already holds the user message is up
\* to the SDK: both are possible
AssistantSend(r) ==
    /\ pc[r] = "sendMessageToChatStreamWithHistory"
    /\ \/ /\ \E withUserMessage \in BOOLEAN :
               loc' = [loc EXCEPT ![r].sdkMessages =
                         loc[r].historyMessages
                         \o (IF withUserMessage
                             THEN << Content("user", << req[r].prompt >>) >>
                             ELSE <<>>)]
          /\ res' = res
          /\ pc' = [pc EXCEPT ![r] = "assistant.stream"]
       \/ /\ loc' = loc
          /\ res' = [res EXCEPT ![r] = AssistantCatchError(@)]
          /\ pc' = [pc EXCEPT ![r] = "Aborted"]
    /\ UNCHANGED <<chat_sessions, user_usage, document_analysis, tmpdir, req,
                   exchanges, returned, activeChats, chat_history, uuids>>

\* one chunk of the stream: its text, when it has one, is written to the
\* response and added to modelResponseText
AssistantStreamUnit(r) ==
    /\ pc[r] = "assistant.stream"
    /\ loc[r].units < MaxStream
    /\ \E text \in Deltas(loc[r].units + 1) :
         /\ loc' = [loc EXCEPT ![r].units = @ + 1,
                               ![r].assistantResponseContent = @ \o text]
         /\ res' = [res EXCEPT ![r] =
                      IF text # <<>> THEN Write(@, text) ELSE @]
    /\ pc' = pc
    /\ UNCHANGED <<chat_sessions, user_usage, document_analysis, tmpdir, req,
                   exchanges, returned, activeChats, chat_history, uuids>>

\* the stream throws: the catch block answers 500 or ends the response
AssistantStreamError(r) ==
    /\ pc[r] = "assistant.stream"
    /\ loc' = [loc EXCEPT ![r].streamError = TRUE]
    /\ res' = [res EXCEPT ![r] = AssistantCatchError(@)]
    /\ pc' = [pc EXCEPT ![r] = "Aborted"]
    /\ UNCHANGED <<chat_sessions, user_usage, document_analysis, tmpdir, req,
                   exchanges, returned, activeChats, chat_history, uuids>>

\* the stream is over: the model turn is pushed onto updatedHistory
AssistantStreamEnd(r) ==
    /\ pc[r] = "assistant.stream"
    /\ loc' = [loc EXCEPT ![r].sdkMessages =
                 Append(@, Content("model",
                                   << loc[r].assistantResponseContent >>))]
    /\ res' = res
    /\ pc' = [pc EXCEPT ![r] = "assistant.persist"]
    /\ UNCHANGED <<chat_sessions, user_usage, document_analysis, tmpdir, req,
                   exchanges, returned, activeChats, chat_history, uuids>>

\* with a chatSessionId updateChatHistory overwrites the history of the
\* row with that id, and returns null when there is none or the update
\* fails; without one createChatHistory inserts a row under newChatId, or
\* returns null; then the response is ended
AssistantPersist(r) ==
    /\ pc[r] = "assistant.persist"
    /\ \E dbOk \in BOOLEAN :
         chat_history' =
           IF ~dbOk THEN chat_history
           ELSE IF req[r].chatId # NoChatId
           THEN {IF row.id = req[r].chatId
                 THEN [row EXCEPT !.history = loc[r].sdkMessages]
                 ELSE row : row \in chat_history}
           ELSE IF historyRows(loc[r].finalSessionId) # {} THEN chat_history
           ELSE chat_history \cup
                  {[id |-> loc[r].finalSessionId, user_id |-> loc[r].userId,
                    history |-> loc[r].sdkMessages]}
    /\ res' = [res EXCEPT ![r] = End(@)]
    /\ pc' = [pc EXCEPT ![r] = "Done"]
    /\ UNCHANGED <<chat_sessions, user_usage, document_analysis, tmpdir, req,
                   loc, exchanges, returned, activeChats, uuids>>

\* the steps of streamAssistantChat
HandleAssistant ==
    \/ \E r \in Reqs : AssistantValidate(r)
    \/ \E r \in Reqs : AssistantLookup(r)
    \/ \E r \in Reqs : AssistantSend(r)
    \/ \E r \in Reqs : AssistantStreamUnit(r)
    \/ \E r \in Reqs : AssistantStreamError(r)
    \/ \E r \in Reqs : AssistantStreamEnd(r)
    \/ \E r \in Reqs : AssistantPersist(r)
    \/ \E r \in Reqs : Finish(r)

\* requests of u1, or without a token that verifies, to the assistant
\* chat, one after the other: without chatSessionId, with the id of a
\* stored history or with an id that names none
ReceiveAssistant ==
    \E r \in Reqs :
      /\ pc[r] = "idle"
      /\ InTurn(r)
      /\ \E authorization \in {a \in AuthHeaders : a.token # "u2"},
            chatSessionId \in {NoChatId, StaleChatId}
                              \cup {row.id : row \in chat_history} :
           authenticateToken("streamAssistantChat", r, authorization,
                             <<"prompt", ToString(r)>>, chatSessionId, <<>>)

NextAssistant == ReceiveAssistant \/ HandleAssistant

SpecAssistant == Init /\ [][NextAssistant]_vars

\* ------------------------------- GeminiService.sendMessageToChatStream
\* the size the map of active chats is cut back to
activeChatsLimit == 20
\* the most ids randomUUID() hands out in a run
MaxUuids == 23
\* the keys of the map
activeChatIds == {activeChats[i] : i \in 1..Len(activeChats)}

\* variant: the cleanup removes the newest key
cleanup_newest(chats) ==
    IF Len(chats) > activeChatsLimit
    THEN SubSeq(chats, 1, Len(chats) - 1) ELSE chats

\* the cleanup after an insertion: above the limit the first key of the
\* map iterator is deleted
cleanup(chats) ==
    IF Len(chats) > activeChatsLimit THEN Tail(chats) ELSE chats

\* a call of sendMessageToChatStream up to its await (stage 1): an input
\* id that is a key of the map is kept; otherwise a chat is created under
\* a new id, inserted, and the cleanup runs; or the creation throws. An id
\* drawn for a creation that threw is never seen again and is not counted
SendMessageToChatStream ==
    /\ pc[1] \in {"idle", "gemini.returned", "gemini.thrown"}
    /\ \E inputChatId \in {NoChatId, StaleChatId}
                            \cup {randomUUID(k) : k \in 1..uuids} :
         /\ req' = [req EXCEPT ![1] =
                      [IdleReq EXCEPT !.route = "sendMessageToChatStream",
                                      !.chatId = inputChatId]]
         /\ IF inputChatId # NoChatId /\ inputChatId \in activeChatIds
            THEN /\ loc' = [loc EXCEPT ![1] =
                              [IdleLoc EXCEPT !.finalSessionId = inputChatId]]
                 /\ pc' = [pc EXCEPT ![1] = "gemini.sendMessageStream"]
                 /\ UNCHANGED <<activeChats, uuids>>
            ELSE /\ uuids < MaxUuids
                 /\ \/ /\ loc' = [loc EXCEPT ![1] =
                                    [IdleLoc EXCEPT
                                       !.finalSessionId = randomUUID(uuids + 1),
                                       !.isNewSession = TRUE]]
                       /\ activeChats' =
                            cleanup(Append(activeChats, randomUUID(uuids + 1)))
                       /\ uuids' = uuids + 1
                       /\ pc' = [pc EXCEPT ![1] = "gemini.sendMessageStream"]
                    \/ /\ loc' = [loc EXCEPT ![1] = IdleLoc]
                       /\ pc' = [pc EXCEPT ![1] = "gemini.thrown"]
                       /\ UNCHANGED <<activeChats, uuids>>
    /\ UNCHANGED <<chat_sessions, user_usage, document_analysis, tmpdir, res,
                   exchanges, returned, chat_history>>

\* stage 2: chat.sendMessageStream resolves and the stream is returned
\* with currentChatId, or it throws and the error is rethrown
ChatSendMessageStream ==
    /\ pc[1] = "gemini.sendMessageStream"
    /\ \E ok \in BOOLEAN :
         pc' = [pc EXCEPT ![1] = IF ok THEN "gemini.returned"
                                 ELSE "gemini.thrown"]
    /\ UNCHANGED <<chat_sessions, user_usage, document_analysis, tmpdir, req,
                   loc, res, exchanges, returned, chat_history, activeChats,
                   uuids>>

NextGemini == SendMessageToChatStream \/ ChatSendMessageStream

SpecGemini == Init /\ [][NextGemini]_vars

\* ------------------------------ MistralService.sendMessageStream, direct
\* the longest message list and document list handed to the service
MaxMessages == 3
MaxDocuments == 2
\* the messages and documents a caller of the service may hand over
ServiceMessages ==
    { Message("system", StringContent(<<"s">>)),
      Message("user", StringContent(<<"u">>)),
      Message("assistant", StringContent(<<"a">>)),
      Message("user", ChunkContent(<< TextChunk(<<"c">>) >>)) }
ServiceDocuments ==
    { OCRResponse("contract.pdf",
         << OCRPageObject(<<"contract.pdf", "page1">>, <<>>),
            OCRPageObject(<<"contract.pdf", "page2">>, <<>>) >>),
      OCRResponse("scan.png",
         << OCRPageObject(<<"scan.png", "page1">>,
               << OCRImageObject(TRUE, FALSE, <<"img1">>) >>) >>),
      OCRResponse("empty.pdf", <<>>) }

\* a caller is about to call sendMessageStream with any list of messages
\* and any list of documents
InitService ==
    /\ chat_sessions = SeedSessions
    /\ user_usage = <<>>
    /\ document_analysis = <<>>
    /\ tmpdir = {}
    /\ pc = [r \in Reqs |-> IF r = 1 THEN "mistral.sendMessageStream" ELSE "idle"]
    /\ req = [r \in Reqs |-> IdleReq]
    /\ \E messages \in SeqsUpTo(ServiceMessages, MaxMessages),
          processedDocuments \in SeqsUpTo(ServiceDocuments, MaxDocuments) :
         loc = [r \in Reqs |->
                  IF r = 1
                  THEN [IdleLoc EXCEPT !.historyMessages = messages,
                                       !.existingDocuments = processedDocuments]
                  ELSE IdleLoc]
    /\ res = [r \in Reqs |-> IdleRes]
    /\ exchanges = [s \in 1..Len(SeedSessions) |-> 0]
    /\ returned = {}
    /\ chat_history = SeedHistories
    /\ activeChats = <<>>
    /\ uuids = 0

\* variant: without a last user message the documents are left out
CallSendMessageStream_noFallback(r) ==
    /\ pc[r] = "mistral.sendMessageStream"
    /\ loc' = [loc EXCEPT ![r].sdkMessages =
           IF lastUserIndex(convertMessagesToSdkFormat(loc[r].historyMessages)) # 0
           THEN sendMessageStreamMessages(loc[r].historyMessages,
                                          loc[r].existingDocuments)
           ELSE convertMessagesToSdkFormat(loc[r].historyMessages)]
    /\ pc' = [pc EXCEPT ![r] = "mistral.stream"]
    /\ UNCHANGED <<chat_sessions, user_usage, document_analysis, tmpdir, req,
                   res, exchanges, returned,
                   chat_history, activeChats, uuids>>

\* sendMessageStream up to client.chat.stream: the messages are converted
\* and the document context is injected
CallSendMessageStream(r) ==
    /\ pc[r] = "mistral.sendMessageStream"
    /\ loc' = [loc EXCEPT ![r].sdkMessages =
           sendMessageStreamMessages(loc[r].historyMessages,
                                     loc[r].existingDocuments)]
    /\ pc' = [pc EXCEPT ![r] = "mistral.stream"]
    /\ UNCHANGED <<chat_sessions, user_usage, document_analysis, tmpdir, req,
                   res, exchanges, returned,
                   chat_history, activeChats, uuids>>

NextService == \E r \in Reqs : CallSendMessageStream(r)

SpecService == InitService /\ [][NextService]_vars

\* ------------------------------------------------------------- properties
\* the session request r works on, as stored now and as stored when the
\* request arrived (a placeholder created by the request was empty then)
EmptyRow == [user_id |-> "", messages |-> <<>>, documents |-> <<>>]
SessionNow(r) == chat_sessions[loc[r].finalSessionId]
SessionBefore(r) ==
    IF loc[r].finalSessionId \in 1..Len(loc[r].before)
    THEN loc[r].before[loc[r].finalSessionId] ELSE EmptyRow
\* the text streamed to the caller
StreamedText(r) == Flatten(res[r].body)
\* the file loop of request r is over
AfterFiles(r) ==
    \/ pc[r] \in {"sendMessageStream", "stream", "trackUserUsage",
                  "updateChatSession", "update", "Done"}
    \/ pc[r] = "Aborted" /\ loc[r].sdkMessages # <<>>
\* the session of request r is resolved and its handling went on
AfterResolve(r) ==
    pc[r] \in {"downloadFile", "readFileSync", "processDocumentOcr",
               "sendMessageStream",
               "stream", "trackUserUsage", "updateChatSession", "update",
               "Done", "Aborted"}
RECURSIVE KeptNames(_, _, _)
KeptNames(filePaths, i, skipped) ==
    IF i > Len(filePaths) THEN <<>>
    ELSE (IF i \in skipped THEN <<>> ELSE << basename(filePaths[i]) >>)
         \o KeptNames(filePaths, i + 1, skipped)
HasPages(doc) == Len(doc.pages) > 0
IsDocumentMessage(msg) == ~msg.content.isString

\* C1: when the model stream of a request on an existing session throws
\* after at least one chunk was written to the response, the stored
\* session's messages and documents are those from before the request.
C1_NoPartialPersistence ==
    \A r \in Reqs :
      (loc[r].streamError /\ Len(res[r].body) >= 1 /\ ~loc[r].isNewSession)
      => /\ SessionNow(r).messages = SessionBefore(r).messages
         /\ SessionNow(r).documents = SessionBefore(r).documents

C1_Witness ==
    \E r \in Reqs :
      /\ pc[r] = "Aborted" /\ loc[r].streamError
      /\ Len(res[r].body) >= 1 /\ ~loc[r].isNewSession
      /\ Len(loc[r].newlyProcessedDocuments) >= 1
      /\ res[r].writableEnded /\ res[r].json = ""

\* C2: over any sequence of non-overlapping requests, a session's messages
\* are its pre-existing messages, unchanged, followed by two messages per
\* request that completed with its update written; such a request appended
\* exactly [user(prompt), assistant(streamed text)].
C2_AppendOnlyHistory ==
    /\ \A s \in 1..Len(chat_sessions) :
         LET pre == IF s <= Len(SeedSessions) THEN SeedSessions[s].messages
                    ELSE <<>>
         IN /\ Len(chat_sessions[s].messages) = Len(pre) + 2 * exchanges[s]
            /\ SubSeq(chat_sessions[s].messages, 1, Len(pre)) = pre
    /\ \A r \in Reqs :
         (pc[r] = "Done" /\ loc[r].persisted)
         => SessionNow(r).messages =
              SessionBefore(r).messages
              \o << Message("user", StringContent(req[r].prompt)),
                    Message("assistant", StringContent(StreamedText(r))) >>

C2_Witness ==
    /\ exchanges[1] = 2
    /\ Len(chat_sessions[1].messages) = 6
    /\ \E r \in Reqs : pc[r] = "Done" /\ loc[r].persisted
                       /\ Len(StreamedText(r)) = 4

\* C3: a request that supplies a session id reported to the same user by an
\* earlier request, whose exchange was stored, creates no session, reports
\* the supplied id in X-Chat-Id and has that exchange in its history.
C3_ResumeKeepsSessionId ==
    \A r \in Reqs : \A e \in returned :
      (loc[r].finalSessionId # 0 /\ e.user = req[r].user /\ e.id = req[r].chatId)
      => /\ Len(chat_sessions) = Len(loc[r].before)
         /\ res[r].xChatId = req[r].chatId
         /\ \E i \in 1..Len(loc[r].historyMessages) - 1 :
              SubSeq(loc[r].historyMessages, i, i + 1) = e.exchange

\* C4: X-Chat-Id is set at most once, exactly when the session is resolved,
\* to the resolved id, and no chunk is written to the body before that.
C4_ChatIdBeforeBody ==
    \A r \in Reqs :
      /\ res[r].xChatIdSets <= 1
      /\ (res[r].xChatIdSets = 1) <=> (loc[r].finalSessionId # 0)
      /\ res[r].xChatIdSets = 1 => res[r].xChatId = loc[r].finalSessionId
      /\ Len(res[r].body) > 0
           => res[r].xChatIdSets = 1 /\ res[r].xChatId = loc[r].finalSessionId
      /\ loc[r].sdkMessages # <<>> => res[r].xChatIdSets = 1

C4_Witness ==
    \E r \in Reqs :
      /\ Len(res[r].body) = 2
      /\ res[r].xChatIdSets = 1
      /\ res[r].xChatId = loc[r].finalSessionId
      /\ loc[r].isNewSession

\* C5: when exactly one of the K file paths of a request fails (download or
\* OCR), the request is not aborted by it, the other K-1 files are
\* extracted in order, and a written update leaves exactly K-1 new entries
\* in the session's documents.
C5_SkipOnDocumentFailure ==
    \A r \in Reqs :
      /\ (pc[r] = "Aborted" /\ loc[r].skipped # {}) => loc[r].sdkMessages # <<>>
      /\ (AfterFiles(r) /\ Cardinality(loc[r].skipped) = 1)
         => /\ [i \in 1..Len(loc[r].newlyProcessedDocuments) |->
                  loc[r].newlyProcessedDocuments[i].fileName]
               = KeptNames(req[r].filePaths, 1, loc[r].skipped)
            /\ Len(loc[r].newlyProcessedDocuments) = Len(req[r].filePaths) - 1
            /\ loc[r].persisted
               => /\ SessionNow(r).documents =
                       SessionBefore(r).documents \o loc[r].newlyProcessedDocuments
                  /\ Len(SessionNow(r).documents) =
                       Len(SessionBefore(r).documents) + Len(req[r].filePaths) - 1

C5_Witness ==
    \E r \in Reqs :
      /\ pc[r] = "Done" /\ loc[r].persisted
      /\ Len(req[r].filePaths) = MaxFiles
      /\ loc[r].skipped = {1}
      /\ Len(res[r].body) >= 1
      /\ Len(SessionNow(r).documents) = Len(SessionBefore(r).documents) + MaxFiles - 1

\* C6: in the list sent to the model the last message is the user message
\* with the new prompt and every synthesized document message stands
\* before it.
C6_DocumentPlacement ==
    \A r \in Reqs :
      loc[r].sdkMessages # <<>>
      => /\ loc[r].sdkMessages[Len(loc[r].sdkMessages)]
              = Message("user", StringContent(req[r].prompt))
         /\ \A i \in 1..Len(loc[r].sdkMessages) :
              IsDocumentMessage(loc[r].sdkMessages[i])
              => i < Len(loc[r].sdkMessages)

C6_Witness ==
    \E r \in Reqs :
      /\ Len(loc[r].sdkMessages) >= 5
      /\ Cardinality({i \in 1..Len(loc[r].sdkMessages) :
                         IsDocumentMessage(loc[r].sdkMessages[i])}) >= 2

C8_ZeroDocuments ==
    \A r \in Reqs :
      (loc[r].sdkMessages # <<>> /\ loc[r].existingDocuments = <<>>
          /\ loc[r].newlyProcessedDocuments = <<>>)
      => loc[r].sdkMessages =
           << Message("system", StringContent(legaltrainPrompt)) >>
           \o loc[r].historyMessages
           \o << Message("user", StringContent(req[r].prompt)) >>

C8_Witness ==
    \E r \in Reqs :
      /\ Len(loc[r].sdkMessages) = 4
      /\ loc[r].existingDocuments = <<>>
      /\ loc[r].newlyProcessedDocuments = <<>>
      /\ loc[r].skipped # {}

C10_OwnerScoping ==
    \A r \in Reqs :
      req[r].user # ""
      => \A s \in 1..Len(loc[r].before) :
           loc[r].before[s].user_id # req[r].user
           => /\ chat_sessions[s] = loc[r].before[s]
              /\ loc[r].finalSessionId # s
              /\ req[r].chatId = s
                 => /\ loc[r].historyMessages = <<>>
                    /\ loc[r].existingDocuments = <<>>

C10_Witness ==
    \E r \in Reqs :
      /\ req[r].user = "u1" /\ req[r].chatId = 2
      /\ pc[r] = "Done" /\ loc[r].persisted
      /\ loc[r].finalSessionId = 3
      /\ Len(chat_sessions[3].messages) = 2
      /\ chat_sessions[2] = SeedSessions[2]

\* the request names a row of another user / names no row at all
NamesForeign(r) ==
    /\ req[r].chatId \in 1..Len(chat_sessions)
    /\ chat_sessions[req[r].chatId].user_id # req[r].user
NamesMissing(r) ==
    req[r].chatId # NoChatId /\ req[r].chatId \notin 1..Len(chat_sessions)
\* the request got past the checks of the header and of req.user and its
\* handler has answered
Answered(r) ==
    /\ pc[r] \in {"Done", "Aborted", "Rejected"}
    /\ loc[r].userId # ""
NotFoundResponse == SendJson(IdleRes, 404, "Chat session not found")

\* C11: analyzeChatDocuments answers a request that names another user's
\* session with exactly the response it gives for an id that names no
\* session (404 Chat session not found), and no request is answered 403.
C11_NoExistenceLeak ==
    \A r \in Reqs :
      /\ res[r].statusCode # 403
      /\ (req[r].route = "analyzeChatDocuments" /\ Answered(r)
          /\ (NamesForeign(r) \/ NamesMissing(r)))
         => res[r] = NotFoundResponse

C11_Witness ==
    \E r \in Reqs :
      /\ req[r].route = "analyzeChatDocuments" /\ Answered(r)
      /\ NamesForeign(r)
      /\ Len(chat_sessions[req[r].chatId].documents) > 0
      /\ res[r] = NotFoundResponse

\* C12: when a supplied chatId does not resolve and the placeholder is
\* created, exactly one session was added, it is the caller's and was
\* created empty, its store-assigned id (not the supplied one) is in
\* X-Chat-Id, history and existing documents are empty, and the request
\* goes on to the model call instead of being answered with an error.
C12_UnknownIdStartsNewSession ==
    \A r \in Reqs :
      (req[r].route = "streamMistralChat" /\ req[r].chatId # NoChatId
       /\ loc[r].isNewSession /\ loc[r].finalSessionId # 0)
      => /\ Len(chat_sessions) = Len(loc[r].before) + 1
         /\ loc[r].finalSessionId = Len(chat_sessions)
         /\ SessionNow(r).user_id = loc[r].userId
         /\ ~loc[r].persisted
            => SessionNow(r).messages = <<>> /\ SessionNow(r).documents = <<>>
         /\ res[r].xChatId = loc[r].finalSessionId
         /\ res[r].xChatId # req[r].chatId
         /\ res[r].xChatIdSets = 1
         /\ loc[r].historyMessages = <<>>
         /\ loc[r].existingDocuments = <<>>
         /\ pc[r] # "Rejected"
         /\ pc[r] = "Aborted" => loc[r].sdkMessages # <<>>

C12_Witness ==
    \E r \in Reqs :
      /\ req[r].route = "streamMistralChat" /\ NamesMissing(r)
      /\ loc[r].isNewSession /\ loc[r].finalSessionId # 0
      /\ pc[r] = "stream" /\ Len(res[r].body) >= 1
      /\ Len(loc[r].sdkMessages) = 2

\* C13: a request without chatId and without filePaths that completed with
\* its update written created exactly one session, and that session holds
\* exactly the two messages [user(prompt), assistant(streamed text)] and
\* no document.
C13_NewSessionEndToEnd ==
    \A r \in Reqs :
      (req[r].route = "streamMistralChat" /\ req[r].chatId = NoChatId
       /\ req[r].filePaths = <<>> /\ pc[r] = "Done" /\ loc[r].persisted)
      => /\ Len(chat_sessions) = Len(loc[r].before) + 1
         /\ loc[r].finalSessionId = Len(chat_sessions)
         /\ res[r].xChatId = loc[r].finalSessionId
         /\ Len(SessionNow(r).messages) = 2
         /\ SessionNow(r).messages =
              << Message("user", StringContent(req[r].prompt)),
                 Message("assistant", StringContent(StreamedText(r))) >>
         /\ SessionNow(r).documents = <<>>

C13_Witness ==
    \E r \in Reqs :
      /\ req[r].route = "streamMistralChat" /\ req[r].chatId = NoChatId
      /\ req[r].filePaths = <<>> /\ pc[r] = "Done" /\ loc[r].persisted
      /\ Len(res[r].body) = 2
      /\ Len(SessionNow(r).messages) = 2

\* C14: once the caller has disconnected during the relay no further chunk
\* is written to the response and the turn is not persisted: the session's
\* messages and documents stay as they were when the request arrived.
C14_DisconnectionPolicy ==
    \A r \in Reqs :
      res[r].destroyed
      => /\ res[r].lost = 0
         /\ ~loc[r].persisted
         /\ SessionNow(r).messages = SessionBefore(r).messages
         /\ SessionNow(r).documents = SessionBefore(r).documents

\* the exchange request r appends
Exchange(r) ==
    << Message("user", StringContent(req[r].prompt)),
       Message("assistant", StringContent(loc[r].assistantResponseContent)) >>

\* C15: the write of updateChatSession stores the arrays the request read
\* earlier plus its own exchange and documents, whatever another request
\* has stored in between; so with two concurrent requests on one session
\* the later write drops the exchange of the earlier one.
C15_LostUpdate ==
    [][\A r \in Reqs :
         (pc[r] = "update" /\ pc'[r] = "Done" /\ loc'[r].persisted)
         => /\ chat_sessions'[loc[r].finalSessionId].messages =
                 loc[r].currentSession.messages \o Exchange(r)
            /\ chat_sessions'[loc[r].finalSessionId].documents =
                 loc[r].currentSession.documents
                 \o loc[r].newlyProcessedDocuments]_vars

C15_Witness ==
    /\ Cardinality({e \in returned : e.id = 1 /\ e.user = "u1"}) = 2
    /\ Len(chat_sessions[1].messages) < Len(SeedSessions[1].messages) + 4
    /\ \E e \in returned :
         chat_sessions[1].messages = SeedSessions[1].messages \o e.exchange

\* C16: the temporary copy a request wrote is the one it reads: when a
\* request is about to read its copy the file is there with the content
\* of the request's own file, and the content handed to the OCR is that of
\* the request's own file.
C16_CrossRequestIsolation ==
    \A r \in Reqs :
      LET filePath == req[r].filePaths[loc[r].fileIndex]
      IN /\ pc[r] = "readFileSync"
            => <<basename(filePath), filePath>> \in tmpdir
         /\ pc[r] = "processDocumentOcr" => loc[r].fileContent = filePath

\* C17: while updateChatSession runs the response is already complete (status
\* 200, no error body, ended, its body the streamed text) and no step of
\* the update, failed or not, changes it: the caller of a run whose
\* persistence fails has the response of a run whose persistence succeeds.
C17_PersistenceNeverSurfaced ==
    [][\A r \in Reqs :
         pc[r] \in {"updateChatSession", "update"} =>
           /\ res[r].writableEnded
           /\ res[r].statusCode = 200
           /\ res[r].json = ""
           /\ res[r].xChatId = loc[r].finalSessionId
           /\ Flatten(res[r].body) = loc[r].assistantResponseContent
           /\ res'[r] = res[r]]_vars
\* the update failed after a stream that wrote text
C17_Witness ==
    \E r \in Reqs :
        /\ pc[r] = "Done"
        /\ ~loc[r].persisted
        /\ SessionNow(r) = SessionBefore(r)
        /\ res[r].body # <<>>
        /\ res[r].writableEnded
        /\ res[r].statusCode = 200

\* the lookup of the supplied id failed: the id names a row of the caller
\* that was stored when the request arrived, and the handler took the
\* session for new
LookupFailed(r) ==
    /\ req[r].chatId \in 1..Len(loc[r].before)
    /\ loc[r].before[req[r].chatId].user_id = req[r].user
    /\ loc[r].isNewSession
\* the creation of the placeholder failed
CreationFailed(r) ==
    /\ pc[r] = "Aborted"
    /\ loc[r].isNewSession
    /\ loc[r].finalSessionId = 0

\* C18: a request whose session store failed during ResolveSession (the
\* lookup of the supplied id, or the creation of the placeholder) goes no
\* further than its abort: the response is the 500 error, no X-Chat-Id was
\* set, no file was handled, no message list was built for the model and
\* no session was created.
C18_StoreFailureAborts ==
    \A r \in Reqs :
      (LookupFailed(r) \/ CreationFailed(r)) =>
        /\ pc[r] \in {"createChatSession", "Aborted"}
        /\ pc[r] = "Aborted" =>
              /\ res[r].statusCode = 500
              /\ res[r].writableEnded
        /\ res[r].xChatIdSets = 0
        /\ loc[r].fileIndex = 0
        /\ loc[r].newlyProcessedDocuments = <<>>
        /\ loc[r].sdkMessages = <<>>
        /\ Len(chat_sessions) = Len(loc[r].before)

\* the model call of request r failed before anything was written: the
\* stream did not open, or it threw before its first non-empty delta
ModelFailedBeforeFirstByte(r) ==
    /\ pc[r] = "Aborted"
    /\ loc[r].sdkMessages # <<>>
    /\ res[r].body = <<>>
    /\ loc[r].streamError \/ loc[r].units = 0

\* C19: when the model call fails before anything was written, the caller
\* gets the 500 error body and no stream, the response carries the resolved
\* session id in X-Chat-Id, and the session holds what it held when the
\* request arrived (nothing for a placeholder).
C19_ModelFailureBeforeStream ==
    \A r \in Reqs :
      ModelFailedBeforeFirstByte(r) =>
        /\ res[r].statusCode = 500
        /\ res[r].json = "Failed to process the Mistral chat request"
        /\ res[r].writableEnded
        /\ loc[r].finalSessionId # 0
        /\ res[r].xChatId = loc[r].finalSessionId
        /\ res[r].xChatIdSets = 1
        /\ SessionNow(r).messages = SessionBefore(r).messages
        /\ SessionNow(r).documents = SessionBefore(r).documents
        /\ ~loc[r].persisted
\* the stream of a resumed session did not open
C19_Witness ==
    \E r \in Reqs :
        /\ ModelFailedBeforeFirstByte(r)
        /\ loc[r].units = 0
        /\ ~loc[r].streamError
        /\ ~loc[r].isNewSession
        /\ res[r].xChatId = req[r].chatId
        /\ res[r].statusCode = 500

PastLedger ==
    {"updateChatSession", "update", "createDocumentAnalysis",
     "Done", "Aborted", "Rejected", "closed"}
\* the ledger entry request r may write at its position: none unless the
\* model call is over and gave usage
LedgerEntry(r) ==
    [user_id |-> req[r].user,
     usage_type |-> IF req[r].route = "streamMistralChat" THEN "chat"
                    ELSE "analysis",
     token_count |-> loc[r].tokenUsage.totalTokens]
ModelCallCompleted(r) ==
    \/ /\ req[r].route = "streamMistralChat"
       /\ pc[r] = "trackUserUsage"
       /\ res[r].writableEnded
       /\ res[r].statusCode = 200
       /\ ~loc[r].streamError
    \/ /\ req[r].route = "analyzeChatDocuments"
       /\ pc[r] = "analyze.trackUserUsage"
       /\ loc[r].parsed
\* no stored message or document has a field for usage
NoUsageInSessions ==
    \A s \in 1..Len(chat_sessions) :
      /\ \A i \in 1..Len(chat_sessions[s].messages) :
            DOMAIN chat_sessions[s].messages[i] = {"role", "content"}
      /\ \A i \in 1..Len(chat_sessions[s].documents) :
            DOMAIN chat_sessions[s].documents[i] = {"fileName", "pages"}

AnswerUnusable(r) ==
    /\ req[r].route = "analyzeChatDocuments"
    /\ loc[r].replyContent \in {"none", "chunks", "text", "json_object"}

\* C22: an analysis request whose model answer could not be parsed or is
\* not an array of findings ends with an error response: it is never
\* answered 200 with a findings list.
C22_ParseFailureIsHard ==
    \A r \in Reqs :
      (AnswerUnusable(r) /\ pc[r] \in {"Done", "Aborted"}) =>
        /\ res[r].statusCode >= 400
        /\ ~res[r].payload.sent

\* the arguments request r passed to sendMessageStream
MergeMessages(r) == messagesToMistral(loc[r].historyMessages, req[r].prompt)
MergeDocuments(r) ==
    allDocumentsForContext(loc[r].existingDocuments,
                           loc[r].newlyProcessedDocuments)
\* request r has made its call of sendMessageStream
Merged(r) == loc[r].sdkMessages # <<>>

Stage(p) ==
    CASE p = "idle" -> 0
      [] p = "streamMistralChat" -> 1
      [] p \in {"getChatSessionById", "createChatSession"} -> 2
      [] p \in {"downloadFile", "readFileSync", "processDocumentOcr"} -> 3
      [] p = "sendMessageStream" -> 4
      [] p = "stream" -> 5
      [] p = "trackUserUsage" -> 6
      [] p \in {"updateChatSession", "update"} -> 7
      [] p \in {"Done", "Aborted", "Rejected"} -> 8
      [] OTHER -> 9

\* C24: a request never steps back to an earlier step; it is in
\* ProcessDocuments or later only with its session resolved, in StreamModel
\* or later only with its message list built from all its files handled,
\* and it enters PersistSession only from a stream that was consumed to
\* its end without error; a request that is Done, Aborted or Rejected only
\* returns, and that step changes no table and no file.
C24_StepOrdering ==
    [][\A r \in Reqs :
         /\ Stage(pc'[r]) >= Stage(pc[r])
         /\ Stage(pc'[r]) \in 3..7 =>
               /\ loc'[r].finalSessionId # 0
               /\ res'[r].xChatIdSets = 1
         /\ Stage(pc'[r]) \in 4..7 =>
               loc'[r].fileIndex = Len(req'[r].filePaths) + 1
         /\ Stage(pc'[r]) \in 5..7 => loc'[r].sdkMessages # <<>>
         /\ (Stage(pc'[r]) = 7 /\ Stage(pc[r]) # 7) =>
               /\ Stage(pc[r]) \in {5, 6}
               /\ res'[r].writableEnded
               /\ ~loc'[r].streamError
         /\ Stage(pc[r]) = 8 =>
               /\ pc'[r] \in {pc[r], "closed"}
               /\ chat_sessions' = chat_sessions
               /\ user_usage' = user_usage
               /\ tmpdir' = tmpdir]_vars
\* a request that went through every step, with a file and with usage
C24_Witness ==
    \E r \in Reqs :
        /\ pc[r] = "Done"
        /\ loc[r].persisted
        /\ req[r].chatId # NoChatId
        /\ ~loc[r].isNewSession
        /\ Len(loc[r].newlyProcessedDocuments) > 0
        /\ Len(user_usage) = 1
        /\ res[r].body # <<>>

\* C25: under SpecLive every request that entered streamMistralChat
\* eventually stands at Done or at an abort (Aborted, or Rejected for the
\* 401 and 400 answers) with its response completed: the stream ended or
\* the error body sent.
C25_Termination ==
    \A r \in Reqs :
      (pc[r] = "streamMistralChat") ~>
        (/\ pc[r] \in {"Done", "Aborted", "Rejected"}
         /\ res[r].writableEnded
         /\ res[r].headersSent)
\* a request that ran through two files and a stream of MaxStream units
C25_Witness ==
    \E r \in Reqs :
        /\ pc[r] = "Done"
        /\ res[r].writableEnded
        /\ loc[r].units = MaxStream
        /\ loc[r].fileIndex = MaxFiles + 1

\* C26: the response of a request is completed (ended, or answered with a
\* JSON body) at most once, and exactly once when the handler is through;
\* a chunk is written only to a response that is not completed; a JSON
\* error body is only ever on a response without body bytes.
C26_ResponseSinkDiscipline ==
    [][\A r \in Reqs :
         /\ res'[r].ends <= 1
         /\ res'[r].writableEnded <=> res'[r].ends = 1
         /\ Stage(pc'[r]) \in 6..8 => res'[r].ends = 1
         /\ Len(res'[r].body) > Len(res[r].body) =>
               /\ ~res[r].writableEnded
               /\ res[r].ends = 0
         /\ res'[r].json # "" =>
               /\ res'[r].body = <<>>
               /\ res'[r].statusCode >= 400]_vars
\* the stream failed after chunks were written: the response was ended,
\* without error body
C26_Witness ==
    \E r \in Reqs :
        /\ pc[r] = "Aborted"
        /\ loc[r].streamError
        /\ res[r].body # <<>>
        /\ res[r].ends = 1
        /\ res[r].json = ""
        /\ res[r].statusCode = 200

\* the deltas with text among those the stream has yielded, in order
IsText(content) == content # <<>>
TextDeltas(r) == SelectSeq(loc[r].yielded, IsText)

\* C27: while the stream is relayed and after it, the chunks written to
\* the response are exactly the text deltas of the units consumed so far,
\* in order (a delta is written in the step that consumes its unit, a unit
\* without text writes nothing), and the accumulated answer is their
\* concatenation; when the update is stored, the content of the persisted
\* assistant message is the concatenation of the chunks written.
C27_RelayFidelity ==
    \A r \in Reqs :
      /\ Stage(pc[r]) \in 5..8 =>
            /\ Len(loc[r].yielded) = loc[r].units
            /\ res[r].body = TextDeltas(r)
            /\ loc[r].assistantResponseContent = Flatten(res[r].body)
      /\ (pc[r] = "Done" /\ loc[r].persisted) =>
            LET messages == SessionNow(r).messages
            IN /\ Len(messages) >= 2
               /\ messages[Len(messages)] =
                     Message("assistant",
                             StringContent(Flatten(TextDeltas(r))))
\* a stream whose first unit had no text and whose second had text and
\* usage, stored
C27_Witness ==
    \E r \in Reqs :
        /\ pc[r] = "Done"
        /\ loc[r].persisted
        /\ loc[r].units = 2
        /\ loc[r].yielded[1] = <<>>
        /\ loc[r].yielded[2] # <<>>
        /\ loc[r].tokenUsage = UsageInfo(2)
        /\ Len(res[r].body) = 1

\* the usage the stream of request r yielded last, if any
LastUsage(r) ==
    IF loc[r].usageUnit = 0 THEN NoUsage
    ELSE CHOOSE u \in Usages(loc[r].usageUnit) : u.present

\* C28: at every point of the relay and after it the captured usage is the
\* usage of the last unit that carried one, whether or not that unit had
\* text, and it is absent when no unit carried usage; the ledger then has
\* no entry, and an entry that is written has the total of that usage.
C28_UsageCapture ==
    \A r \in Reqs :
      Stage(pc[r]) \in 5..8 =>
        /\ loc[r].tokenUsage = LastUsage(r)
        /\ loc[r].usageUnit = 0 => ~loc[r].tokenUsage.present
        /\ ~loc[r].tokenUsage.present => /\ user_usage = <<>>
                                         /\ pc[r] # "trackUserUsage"
        /\ user_usage # <<>> =>
              /\ Len(user_usage) = 1
              /\ user_usage[1].token_count = LastUsage(r).totalTokens
\* usage came on the last unit, which had no text, after a unit with text;
\* the ledger has the entry
C28_Witness ==
    \E r \in Reqs :
        /\ pc[r] = "Done"
        /\ loc[r].units = 2
        /\ loc[r].usageUnit = 2
        /\ loc[r].yielded[1] # <<>>
        /\ loc[r].yielded[2] = <<>>
        /\ loc[r].tokenUsage = UsageInfo(2)
        /\ Len(user_usage) = 1
        /\ user_usage[1].token_count = 2

\* the model stream of request r was consumed to its end without error and
\* the response was ended
StreamCompleted(r) ==
    /\ req[r].route = "streamMistralChat"
    /\ loc[r].sdkMessages # <<>>
    /\ ~loc[r].streamError
    /\ res[r].writableEnded
    /\ res[r].statusCode = 200

\* C29: a request whose stream completed goes on to the update of its
\* session whatever became of the ledger call: it never ends aborted, and
\* when the update is written the session holds the exchange and the new
\* documents.
C29_LedgerFailureKeepsTurn ==
    \A r \in Reqs :
      (StreamCompleted(r) /\ Stage(pc[r]) = 8) =>
        /\ pc[r] = "Done"
        /\ loc[r].persisted =>
              /\ SessionNow(r).messages =
                    SessionBefore(r).messages \o Exchange(r)
              /\ SessionNow(r).documents =
                    SessionBefore(r).documents \o loc[r].newlyProcessedDocuments

\* a document that was extracted without any page
ZeroPages(doc) == Len(doc.pages) = 0

\* C30: the list sent to the model has one synthesized message per
\* document with pages and none for a document without pages, and the
\* update that is written after the stream appends every newly extracted
\* document, those without pages included.
C30_ZeroPageDocuments ==
    \A r \in Reqs :
      /\ (req[r].route = "streamMistralChat" /\ Merged(r)) =>
            Len(SelectSeq(loc[r].sdkMessages, IsDocumentMessage))
              = Len(SelectSeq(MergeDocuments(r), HasPages))
      /\ (pc[r] = "Done" /\ loc[r].persisted) =>
            SessionNow(r).documents =
              SessionBefore(r).documents \o loc[r].newlyProcessedDocuments
\* the only document of the request has no pages: nothing was synthesized
\* for it and it is stored
C30_Witness ==
    \E r \in Reqs :
        /\ pc[r] = "Done"
        /\ loc[r].persisted
        /\ Len(loc[r].newlyProcessedDocuments) = 1
        /\ ZeroPages(loc[r].newlyProcessedDocuments[1])
        /\ loc[r].existingDocuments = <<>>
        /\ loc[r].sdkMessages = MergeMessages(r)
        /\ Len(SessionNow(r).documents) = 1
        /\ ZeroPages(SessionNow(r).documents[1])

\* the file names of a list of documents
FileNames(documents) == [i \in 1..Len(documents) |-> documents[i].fileName]

\* C31: over requests that follow one another, every step that changes the
\* documents of a stored session is the update of a request on that
\* session, and it stores the documents the request loaded from the
\* session, unchanged, followed by the documents the request extracted, in
\* the order of its file list; a session is created without documents.
C31_DocumentsCountedOnce ==
    [][/\ \A s \in 1..Len(chat_sessions) :
            chat_sessions'[s].documents # chat_sessions[s].documents =>
              \E r \in Reqs :
                 /\ pc[r] = "update"
                 /\ loc[r].finalSessionId = s
                 /\ chat_sessions[s].documents = loc[r].existingDocuments
                 /\ chat_sessions'[s].documents =
                       loc[r].existingDocuments
                       \o loc[r].newlyProcessedDocuments
                 /\ FileNames(loc[r].newlyProcessedDocuments) =
                       KeptNames(req[r].filePaths, 1, loc[r].skipped)
                 /\ MergeDocuments(r) = chat_sessions'[s].documents
       /\ \A s \in Len(chat_sessions) + 1..Len(chat_sessions') :
            chat_sessions'[s].documents = <<>>]_vars
\* the second request resumed the session the first one created, which had
\* a document, extracted another one, and the session holds both, once
C31_Witness ==
    \E r \in Reqs :
        /\ pc[r] = "Done"
        /\ loc[r].persisted
        /\ loc[r].finalSessionId > Len(SeedSessions)
        /\ Len(loc[r].existingDocuments) = 1
        /\ Len(loc[r].newlyProcessedDocuments) = 1
        /\ loc[r].existingDocuments # loc[r].newlyProcessedDocuments
        /\ SessionNow(r).documents =
              loc[r].existingDocuments \o loc[r].newlyProcessedDocuments

\* the files of request r whose handling is over
HandledFiles(r) ==
    IF pc[r] \in {"downloadFile", "readFileSync", "processDocumentOcr"}
    THEN loc[r].fileIndex - 1
    ELSE IF loc[r].fileIndex = 0 THEN 0 ELSE Len(req[r].filePaths)

\* C32: every occurrence of a path in the file list is handled on its own:
\* the request has one new document for every file handled so far that
\* was not skipped for a failure, whatever the session or the request
\* already holds for that path, and the stored update lengthens the
\* documents of the session by that number.
C32_NoDeduplication ==
    \A r \in Reqs :
      /\ req[r].route = "streamMistralChat" =>
            /\ Len(loc[r].newlyProcessedDocuments)
                  = HandledFiles(r) - Cardinality(loc[r].skipped)
            /\ FileNames(loc[r].newlyProcessedDocuments)
                  = KeptNames(req[r].filePaths, 1,
                              loc[r].skipped \cup
                                (HandledFiles(r) + 1..Len(req[r].filePaths)))
      /\ (pc[r] = "Done" /\ loc[r].persisted) =>
            Len(SessionNow(r).documents) =
              Len(SessionBefore(r).documents)
              + Len(req[r].filePaths) - Cardinality(loc[r].skipped)
\* the path the first request stored a document for is supplied twice by
\* the second request on the same session: three equal entries
C32_Witness ==
    \E r \in Reqs :
        /\ pc[r] = "Done"
        /\ loc[r].persisted
        /\ Len(req[r].filePaths) = 2
        /\ req[r].filePaths[1] = req[r].filePaths[2]
        /\ Len(loc[r].existingDocuments) = 1
        /\ Len(SessionNow(r).documents) = 3
        /\ \A i \in 1..3 :
              SessionNow(r).documents[i] = loc[r].existingDocuments[1]

\* request r is between the download of a file and the end of its handling
HandlingFile(r) ==
    pc[r] \in {"readFileSync", "processDocumentOcr",
               "ocr.readFileSync", "ocr.processDocumentOcr"}

DocumentMessages(messages) ==
    {i \in 1..Len(messages) : ~messages[i].content.isString}
\* the documents that have a page
DocumentsWithPages(documents) ==
    {i \in 1..Len(documents) : Len(documents[i].pages) > 0}

\* C34: every stored message is a plain-text user or assistant message;
\* every change of a session's messages appends the request's original
\* prompt as a plain user message and the accumulated assistant text to
\* the list read before, and a new session starts with no message; the
\* list sent to the model holds one synthesized message per document with
\* pages, so none comes back through the history.
C34_OnlyRealTurnsStored ==
    /\ [](\A s \in 1..Len(chat_sessions) :
            \A i \in 1..Len(chat_sessions[s].messages) :
              /\ chat_sessions[s].messages[i].content.isString
              /\ chat_sessions[s].messages[i].role \in {"user", "assistant"})
    /\ [](\A r \in Reqs :
            (req[r].route = "streamMistralChat" /\ loc[r].sdkMessages # <<>>)
            => /\ DocumentMessages(loc[r].historyMessages) = {}
               /\ Cardinality(DocumentMessages(loc[r].sdkMessages))
                    = Cardinality(DocumentsWithPages(
                          loc[r].existingDocuments
                          \o loc[r].newlyProcessedDocuments)))
    /\ [][/\ \A s \in 1..Len(chat_sessions) :
              chat_sessions'[s].messages # chat_sessions[s].messages
              => \E r \in Reqs :
                   /\ pc[r] = "update"
                   /\ loc[r].finalSessionId = s
                   /\ chat_sessions'[s].messages =
                        loc[r].currentSession.messages
                        \o << Message("user", StringContent(req[r].prompt)),
                              Message("assistant",
                                  StringContent(loc[r].assistantResponseContent)) >>
          /\ \A s \in (Len(chat_sessions) + 1)..Len(chat_sessions') :
              chat_sessions'[s].messages = <<>>]_vars
\* a request on a session with history and a stored document added a
\* document, sent both to the model and stored its streamed exchange
C34_Witness ==
    \E r \in Reqs :
        /\ pc[r] = "Done"
        /\ loc[r].persisted
        /\ loc[r].historyMessages # <<>>
        /\ DocumentsWithPages(loc[r].existingDocuments) # {}
        /\ DocumentsWithPages(loc[r].newlyProcessedDocuments) # {}
        /\ Cardinality(DocumentMessages(loc[r].sdkMessages)) = 2
        /\ loc[r].assistantResponseContent # <<>>

\* request r is being handled by streamMistralChat
InChat(r) ==
    req[r].route = "streamMistralChat" /\ pc[r] \notin {"idle", "closed"}
\* request r created a session
CreatedSession(r) == loc[r].isNewSession /\ loc[r].finalSessionId # 0

\* C35: a request adds at most one session to the store, and none when
\* the supplied id resolved; the session is added empty, by a request that
\* has not yet built the list for the model, and its id goes into
\* X-Chat-Id; and when the request aborts afterwards, before or during
\* the relay, the session is still stored, empty, under the reported id.
C35_PlaceholderSessions ==
    /\ [](\A r \in Reqs :
            InChat(r) =>
              /\ Len(chat_sessions) =
                   Len(loc[r].before) + (IF CreatedSession(r) THEN 1 ELSE 0)
              /\ (~loc[r].isNewSession /\ loc[r].finalSessionId # 0)
                   => loc[r].finalSessionId = req[r].chatId
              /\ (loc[r].sdkMessages # <<>> /\ loc[r].isNewSession)
                   => CreatedSession(r)
              /\ (CreatedSession(r) /\ pc[r] = "Aborted")
                   => /\ loc[r].finalSessionId \in 1..Len(chat_sessions)
                      /\ res[r].xChatId = loc[r].finalSessionId
                      /\ SessionNow(r).user_id = loc[r].userId
                      /\ SessionNow(r).messages = <<>>
                      /\ SessionNow(r).documents = <<>>)
    /\ [][Len(chat_sessions') # Len(chat_sessions)
          => \E r \in Reqs :
               /\ pc[r] = "createChatSession"
               /\ loc[r].sdkMessages = <<>>
               /\ ~res[r].headersSent
               /\ chat_sessions' = Append(chat_sessions,
                      [user_id |-> loc[r].userId, messages |-> <<>>,
                       documents |-> <<>>])
               /\ loc'[r].finalSessionId = Len(chat_sessions')
               /\ res'[r].xChatId = Len(chat_sessions')]_vars
\* the relay of a request that created its session failed after text was
\* written
C35_Witness ==
    \E r \in Reqs :
        /\ InChat(r)
        /\ CreatedSession(r)
        /\ pc[r] = "Aborted"
        /\ loc[r].streamError
        /\ res[r].body # <<>>
        /\ res[r].xChatId = Len(chat_sessions)
        /\ SessionNow(r) = [user_id |-> loc[r].userId, messages |-> <<>>,
                            documents |-> <<>>]

\* the documents of a list that have a page, in the order of the list
WithPages(documents) == SelectSeq(documents, LAMBDA doc : Len(doc.pages) > 0)
\* the list does not end with a user message
NoLastUser(messages) ==
    messages = <<>> \/ messages[Len(messages)].role # "user"

\* C36: when the converted list the injection is given does not end with
\* a user message, the list sent to the model is that list, unchanged and
\* in place, followed by one message per document with pages, in the
\* order of the documents.
C36_FallbackPlacement ==
    \A r \in Reqs :
      (pc[r] = "mistral.stream"
       /\ NoLastUser(convertMessagesToSdkFormat(loc[r].historyMessages)))
      => LET given == convertMessagesToSdkFormat(loc[r].historyMessages)
             sent == loc[r].sdkMessages
             docs == WithPages(loc[r].existingDocuments)
         IN /\ Len(sent) = Len(given) + Len(docs)
            /\ \A i \in 1..Len(given) : sent[i] = given[i]
            /\ \A k \in 1..Len(docs) :
                 /\ sent[Len(given) + k].role = "user"
                 /\ << sent[Len(given) + k] >> = documentContextMessage(docs[k])
\* a list that ends with an assistant message and two different documents
\* with pages
C36_Witness ==
    \E r \in Reqs :
        /\ pc[r] = "mistral.stream"
        /\ Len(loc[r].historyMessages) = MaxMessages
        /\ loc[r].historyMessages[MaxMessages].role = "assistant"
        /\ Len(WithPages(loc[r].existingDocuments)) = 2
        /\ loc[r].existingDocuments[1] # loc[r].existingDocuments[2]
        /\ Len(loc[r].sdkMessages) = MaxMessages + 2
        /\ loc[r].sdkMessages[MaxMessages].role = "assistant"

\* request r is an analysis request whose handler went past the checks of
\* the session
PastAnalyzeChecks(r) ==
    /\ req[r].route = "analyzeChatDocuments"
    /\ pc[r] \in {"getStructuredJsonResponse", "analyze.trackUserUsage",
                  "createDocumentAnalysis", "Done", "Aborted"}
\* the handler of r returned from the checks of the session
StoppedAtChecks(r) ==
    /\ req[r].route = "analyzeChatDocuments"
    /\ pc[r] = "Rejected"
    /\ loc[r].userId # ""

\* C37: no step of analyzeChatDocuments changes a session; a request goes
\* past the checks only for a session of the caller that has documents; a
\* request stopped at the checks is answered 400 when its session was
\* found without documents and 404 otherwise, and it made no model call;
\* and ledger entries and analysis records are written only by requests
\* that went past the checks.
C37_AnalysisReadOnlyGuarded ==
    /\ [](chat_sessions = SeedSessions)
    /\ [](\A r \in Reqs :
            /\ PastAnalyzeChecks(r)
               => /\ req[r].chatId \in 1..Len(chat_sessions)
                  /\ chat_sessions[req[r].chatId].user_id = req[r].user
                  /\ Len(chat_sessions[req[r].chatId].documents) > 0
            /\ StoppedAtChecks(r)
               => /\ res[r].statusCode =
                       IF /\ req[r].chatId \in 1..Len(chat_sessions)
                          /\ chat_sessions[req[r].chatId].user_id = req[r].user
                          /\ loc[r].finalSessionId # 0
                       THEN 400 ELSE 404
                  /\ res[r].statusCode = 400
                       => chat_sessions[req[r].chatId].documents = <<>>
                  /\ res[r].writableEnded
                  /\ ~res[r].payload.sent
                  /\ loc[r].sdkMessages = <<>>
                  /\ loc[r].replyContent = ""
                  /\ ~loc[r].parsed)
    /\ [][/\ user_usage' # user_usage
              => \E r \in Reqs : PastAnalyzeChecks(r)
                                  /\ pc[r] = "analyze.trackUserUsage"
          /\ document_analysis' # document_analysis
              => \E r \in Reqs : PastAnalyzeChecks(r)
                                  /\ pc[r] = "createDocumentAnalysis"
          /\ \A r \in Reqs :
               (StoppedAtChecks(r) \/ pc[r] = "analyze.getChatSessionById")
               => (pc'[r] \in {"Rejected", "closed"}
                   => /\ user_usage' = user_usage
                      /\ document_analysis' = document_analysis)]_vars
\* after an analysis that wrote its ledger entry and its record, a request
\* for a session without documents was answered 400 and wrote nothing
C37_Witness ==
    \E r \in Reqs :
        /\ StoppedAtChecks(r)
        /\ res[r].statusCode = 400
        /\ Len(user_usage) = 1
        /\ Len(document_analysis) = 1
        /\ document_analysis[1].chat_id # req[r].chatId

\* C38: once the model's answer was parsed into a list of findings, the
\* findings the handler holds, stores in the analysis record and returns
\* to the caller are those of the model, whatever became of the ledger
\* call.
C38_LedgerFailureKeepsFindings ==
    \A r \in Reqs :
      (/\ req[r].route = "analyzeChatDocuments"
       /\ loc[r].parsed
       /\ loc[r].modelReply.isArray
       /\ pc[r] \in {"createDocumentAnalysis", "Done"})
      => /\ loc[r].analysisResult = loc[r].modelReply
         /\ res[r].payload.sent
              => /\ res[r].payload.analysis = loc[r].modelReply
                 /\ res[r].payload.recordId # 0
                      => document_analysis[res[r].payload.recordId].analysis
                           = loc[r].modelReply

\* request r supplied a chatSessionId that did not resolve to a stored
\* history and its handler has returned after storing
UnresolvedAndDone(r) ==
    /\ req[r].route = "streamAssistantChat"
    /\ req[r].chatId # NoChatId
    /\ loc[r].isNewSession
    /\ pc[r] = "Done"

\* C39: a request of streamAssistantChat whose chatSessionId did not
\* resolve reports in X-Chat-Id an id other than the supplied one, and
\* after the request a chat history of the caller is stored under the
\* reported id and ends with the model reply.
C39_UnresolvedIdCreatesHistory ==
    \A r \in Reqs :
      UnresolvedAndDone(r)
      => /\ res[r].xChatId # req[r].chatId
         /\ \E row \in chat_history :
              /\ row.id = res[r].xChatId
              /\ row.user_id = loc[r].userId
              /\ row.history # <<>>
              /\ row.history[Len(row.history)]
                   = Content("model", << loc[r].assistantResponseContent >>)

\* a call of sendMessageToChatStream got past stage 1 with this step
EstablishedChat ==
    pc[1] # "gemini.sendMessageStream" /\ pc'[1] = "gemini.sendMessageStream"

\* C40: the map of active chats never holds more than 20 keys and no key
\* twice; a step that changes it inserts the id of the chat just created
\* at the end and, when that made 21, removes the first key and no other;
\* a call with an id that is a key leaves the map alone and goes on, and
\* returns, with that id; a call with an id that is no key, or without an
\* id, goes on with an id that was no key and is not the input.
C40_ActiveChatsCache ==
    /\ [](/\ Len(activeChats) <= activeChatsLimit
          /\ Cardinality(activeChatIds) = Len(activeChats)
          /\ pc[1] \in {"gemini.sendMessageStream", "gemini.returned"}
               => IF loc[1].isNewSession
                  THEN loc[1].finalSessionId # req[1].chatId
                  ELSE loc[1].finalSessionId = req[1].chatId)
    /\ [][/\ activeChats' # activeChats
              => /\ EstablishedChat
                 /\ activeChats'[Len(activeChats')] = loc'[1].finalSessionId
                 /\ IF Len(activeChats) < activeChatsLimit
                    THEN activeChats' =
                           Append(activeChats, loc'[1].finalSessionId)
                    ELSE /\ activeChats' =
                              Append(Tail(activeChats), loc'[1].finalSessionId)
                         /\ activeChats[1] \notin
                              {activeChats'[i] : i \in 1..Len(activeChats')}
          /\ EstablishedChat
              => IF req'[1].chatId # NoChatId
                    /\ req'[1].chatId \in activeChatIds
                 THEN /\ loc'[1].finalSessionId = req'[1].chatId
                      /\ ~loc'[1].isNewSession
                      /\ activeChats' = activeChats
                 ELSE /\ loc'[1].isNewSession
                      /\ loc'[1].finalSessionId \notin activeChatIds
                      /\ loc'[1].finalSessionId # req'[1].chatId
                      /\ activeChats' # activeChats]_vars
\* the map is full and has lost its three oldest keys; the last call
\* supplied the first of them and got the newest id
C40_Witness ==
    /\ uuids = MaxUuids
    /\ Len(activeChats) = activeChatsLimit
    /\ activeChats[1] = randomUUID(MaxUuids - activeChatsLimit + 1)
    /\ pc[1] = "gemini.returned"
    /\ req[1].chatId = randomUUID(1)
    /\ loc[1].finalSessionId = randomUUID(MaxUuids)

====
